---- MODULE Spec2Model ----
(***************************************************************************)
(* A model of the soccer-analytics scraper pipeline:                       *)
(*   - the atomic loader   (scraper/load/load_transformed_data.py),        *)
(*   - the transform       (scraper/transform/transform_full_match.py),    *)
(*   - the status decision (scraper/extract/get_match_urls.py).            *)
(*                                                                         *)
(* The relational store is PostgreSQL reached through psycopg2 at its      *)
(* default isolation level (READ COMMITTED): a statement sees the rows     *)
(* committed when it starts plus the rows its own transaction has staged;  *)
(* an INSERT whose key is held by a row another open transaction has       *)
(* staged waits for that transaction to end.                               *)
(***************************************************************************)
EXTENDS Integers, Sequences, FiniteSets, Bags, TLC

----------------------------------------------------------------------------
(* Bounds of the model.                                                    *)

\* load calls started in one behaviour, over all connections
MaxCalls == 2

\* ids the documents are drawn from
MatchIds == {1, 2}
\* the home and the away team of each match: the two matches share their
\* teams, in opposite orders
Fixture == [m \in MatchIds |-> IF m = 1 THEN <<1, 2>> ELSE <<2, 1>>]
PlayerIds == {1, 2}
\* the players of the home and of the away roster of a document: different
\* players, in both orders, and the same player on both rosters
RosterPairs == { <<1, 2>>, <<2, 1>>, <<1, 1>> }
\* connections (writers), each running load_transformed_match with its own
\* connection
Conns == {1, 2}

----------------------------------------------------------------------------
(* The transformed document load_transformed_match receives.  Only the     *)
(* fields a key or a decision of the loader reads are kept, plus one       *)
(* payload column per entity (team_name, first_name) that shows which      *)
(* document a row came from.                                               *)

Tables == {"team", "player", "match", "player_match_stats"}

\* One roster entry of document m on side s ("h" home, "a" away).
PlayerEntry(m, s, p) == [player_id |-> p, first_name |-> <<m, s>>]

\* One row of player_stats, as clean_player_stats_data builds it.
StatEntry(m, t, p) == [match_id |-> m, player_id |-> p, team_id |-> t]

\* The document of match m, teams h (home) and a (away), with one player per
\* side: hp at home, ap away (hp = ap: the same player on both rosters).  A
\* match has two different teams.
MkDoc(m, h, a, hp, ap) ==
    [match |-> [match_id |-> m, home_team_id |-> h, away_team_id |-> a],
     teams |-> [homeTeam |-> [team_id |-> h, team_name |-> <<m, "h">>],
                awayTeam |-> [team_id |-> a, team_name |-> <<m, "a">>]],
     players |-> [home_team_players |-> << PlayerEntry(m, "h", hp) >>,
                  away_team_players |-> << PlayerEntry(m, "a", ap) >>],
     player_stats |-> << StatEntry(m, h, hp), StatEntry(m, a, ap) >>]

Docs ==
    { MkDoc(t[1], Fixture[t[1]][1], Fixture[t[1]][2], t[2][1], t[2][2]) :
        t \in MatchIds \X RosterPairs }

NoDoc == [match |-> [match_id |-> 0]]
NoRaw == [matchId |-> << >>]

----------------------------------------------------------------------------
VARIABLES
    store,        \* committed rows: store[table] is a bag of rows
    tx,           \* tx[c][table]: rows staged by c's open transaction
    pc,           \* pc[c]: the statement connection c executes next
    doc,          \* doc[c]: transformed_data of c's call
    new_teams,    \* new_teams[c]: teams load_teams still has to insert
    new_players,  \* new_players[c]: players load_players still has to insert
    before,       \* before[c]: the committed store when c's call started
    faulted,      \* faulted[c]: an injected exception ended c's call
    overlap,      \* overlap[c]: another call ran during c's call
    log,          \* the finished calls, in the order they returned
    started,      \* number of calls started
    raw_json,     \* the raw match document handed to transform_full_match
    transformed,  \* what transform_full_match returned for it
    rankings_file, \* scraper/logs/player_rankings.txt: the match ids of its sections
    row_text,     \* the inner text of a fixture row
    status,       \* the status decided for row_text
    start_round,  \* discovery: first round of the scan
    end_round,    \* discovery: last round of the scan
    rnd,          \* discovery: the round whose page is visited
    page_rows,    \* discovery: the fixture rows of the page, as [text, href]
    row_i,        \* discovery: index of the row the inner loop is at
    all_urls,     \* discovery: the set of URLs collected so far
    disc_pc,      \* discovery: where the scan is
    result,       \* discovery: the returned sequence
    rows_seen,    \* history: the rows of the pages that were loaded
    visited,      \* history: the rounds whose page was loaded
    match_url,          \* capture: the URL handed to scrape_match_fast
    scrape_match_id,    \* capture: the match_id parsed from match_url
    match_details_json, \* capture: [data |-> the stored matchDetails payload]
    player_stats_json,  \* capture: player id string -> stored payload
    in_flight,          \* capture: handlers waiting for res.json()
    arrived,            \* capture: number of responses that arrived
    cap_pc,             \* capture: where scrape_match_fast is
    at_close,           \* history: match_details_json["data"] when the page closed
    cap_result,         \* capture: the returned document
    latest_parsed,      \* history: the latest-arriving matchDetails response parsed
    runs,               \* backfill: number of runs started
    pipe_pc,            \* backfill: where run_pipeline_backfill is
    match_urls,         \* backfill: the matches discovery returned
    url_i,              \* backfill: index of the match the loop is at
    raw_files,          \* RAW_DIR: match -> the file <match_id>.json
    transformed_files,  \* TRANSFORMED_DIR: the matches with a file
    raw_data,           \* backfill: the document scrape_match_fast returned
    reached,            \* history: the matches the loop of this run came to
    position_id,        \* the player's positionId, or NoneId
    usual_pos_id,       \* the player's usualPlayingPositionId, or NoneId
    position,           \* the (raw_position, normalized_position) decided
    stat_row,           \* the counters of a player's row, NoValue for None
    team_goals_conceded, \* the goals the player's team conceded
    scored,             \* the five scores put into the row
    flat_stats,         \* extract_stat: the flattened stat map of a player
    extracted,          \* extract_stat: the counters read from flat_stats
    extract_pc          \* extract_stat: "idle", "call" or "returned"

loaderVars == << store, tx, pc, doc, new_teams, new_players, before, faulted,
                 overlap, log, started >>

transformVars == << raw_json, transformed, rankings_file >>

classifierVars == << row_text, status >>

discoverVars == << start_round, end_round, rnd, page_rows, row_i, all_urls, disc_pc,
                   result, rows_seen, visited >>

captureVars == << match_url, scrape_match_id, match_details_json, player_stats_json,
                  in_flight, arrived, cap_pc, at_close, cap_result,
                  latest_parsed >>

pipelineVars == << runs, pipe_pc, match_urls, url_i, raw_files,
                   transformed_files, raw_data, reached >>

positionVars == << position_id, usual_pos_id, position, stat_row,
                   team_goals_conceded, scored >>

extractVars == << flat_stats, extracted, extract_pc >>

\* The variables of the specifications of single functions.
functionVars == << extractVars >>

\* The variables of the extract and pipeline stages and of the scoring.
stageVars == << discoverVars, captureVars, pipelineVars, positionVars,
               functionVars >>

\* What the loader never touches.
notLoaderVars == << transformVars, classifierVars, stageVars >>

vars == << loaderVars, transformVars, classifierVars, stageVars >>

EmptyTables == [t \in Tables |-> EmptyBag]

\* The primary key of team and of player.
IdKey(row) == row.id

\* The key of the unique index of each table.
Key(tbl, row) ==
    CASE tbl = "team" -> IdKey(row)
      [] tbl = "player" -> IdKey(row)
      [] tbl = "match" -> row.match_id
      [] tbl = "player_match_stats" -> << row.match_id, row.player_id >>

Keys(tbl, bag) == { Key(tbl, r) : r \in BagToSet(bag) }

\* What a statement of connection c reads.
Visible(c, tbl) == store[tbl] (+) tx[c][tbl]

\* The <<table, key>> pairs the statement at pc[c] inserts.
PendingKeys(c) ==
    CASE pc[c] = "insert_team" ->
           { << "team", Head(new_teams[c]).team_id >> }
      [] pc[c] = "insert_player" ->
           { << "player", Head(new_players[c]).player_id >> }
      [] pc[c] = "load_match" ->
           { << "match", doc[c].match.match_id >> }
      [] pc[c] = "load_player_match_stats" ->
           { << "player_match_stats", << r.match_id, r.player_id >> >> :
               r \in { doc[c].player_stats[i] : i \in 1..Len(doc[c].player_stats) } }
      [] OTHER -> {}

\* c's next statement inserts a key that a row staged by c2 holds.
WaitsOn(c, c2) ==
    \E tk \in PendingKeys(c) : tk[2] \in Keys(tk[1], tx[c2][tk[1]])

\* What the unique index answers to connection c inserting key k into tbl:
\*   "conflict"  a visible row holds the key,
\*   "blocked"   a row staged by another open transaction holds it: wait,
\*   "deadlock"  ... and that transaction waits for this one: the deadlock
\*               detector aborts the statement with an error,
\*   "free"      the row can be staged.
IndexAnswer(c, tbl, k) ==
    IF k \in Keys(tbl, Visible(c, tbl)) THEN "conflict"
    ELSE IF \E c2 \in Conns \ {c} : k \in Keys(tbl, tx[c2][tbl])
         THEN IF \E c2 \in Conns \ {c} : WaitsOn(c, c2) /\ WaitsOn(c2, c)
              THEN "deadlock" ELSE "blocked"
    ELSE "free"

----------------------------------------------------------------------------
(* How a call of load_transformed_match ends.                              *)

\* The call of c returns r ("True", "False") or raises ("raise"), leaving
\* newStore committed and newTx staged.
Finish(c, r, newStore, newTx) ==
    /\ store' = newStore
    /\ tx' = newTx
    /\ pc' = [pc EXCEPT ![c] = "idle"]
    /\ log' = Append(log, [conn |-> c, doc |-> doc[c], ret |-> r,
                           at |-> pc[c], before |-> before[c],
                           after |-> newStore, faulted |-> faulted'[c],
                           overlap |-> overlap[c]])
    /\ UNCHANGED << doc, new_teams, new_players, before, overlap, started >>
    /\ UNCHANGED notLoaderVars

\* Mutant: the except clause commits what is staged before it re-raises.
RollbackAndRaiseCommits(c) ==
    Finish(c, "raise", [t \in Tables |-> store[t] (+) tx[c][t]],
           [tx EXCEPT ![c] = EmptyTables])

\* Mutant: the except clause re-raises without a rollback, and the rows stay
\* staged on the connection.
RollbackAndRaiseKeepsStaged(c) == Finish(c, "raise", store, tx)

\* except Exception: conn.rollback(); raise
RollbackAndRaise(c) ==
    Finish(c, "raise", store, [tx EXCEPT ![c] = EmptyTables])

\* c's next statement runs and the call goes on at statement next.
Goto(c, next) ==
    /\ pc' = [pc EXCEPT ![c] = next]
    /\ UNCHANGED notLoaderVars

----------------------------------------------------------------------------
(* load_transformed_match, one action per database statement.              *)

\* A caller invokes load_transformed_match(d) on connection c.
StartLoad(c, d) ==
    /\ pc[c] = "idle"
    /\ started < MaxCalls
    /\ started' = started + 1
    /\ doc' = [doc EXCEPT ![c] = d]
    /\ before' = [before EXCEPT ![c] = store]
    /\ faulted' = [faulted EXCEPT ![c] = FALSE]
    /\ overlap' = [c2 \in Conns |->
                     IF c2 = c THEN \E c3 \in Conns \ {c} : pc[c3] # "idle"
                     ELSE overlap[c2] \/ pc[c2] # "idle"]
    /\ Goto(c, "match_exists")
    /\ UNCHANGED << store, tx, new_teams, new_players, log >>

\* Mutant: the existence check does not see the committed rows.
match_exists_unseen(c, match_id) == match_id \in Keys("match", tx[c]["match"])

\* SELECT EXISTS(SELECT 1 FROM match WHERE match_id = %s)
match_exists(c, match_id) == match_id \in Keys("match", Visible(c, "match"))

\* if match_exists(conn, match_id): return False
MatchExists(c) ==
    /\ pc[c] = "match_exists"
    /\ UNCHANGED faulted
    /\ IF match_exists(c, doc[c].match.match_id)
       THEN Finish(c, "False", store, tx)
       ELSE /\ Goto(c, "load_teams")
            /\ UNCHANGED << store, tx, doc, new_teams, new_players, before,
                            overlap, log, started >>
\* SELECT id FROM team WHERE id = ANY(%s)
get_existing_teams(c, team_ids) ==
    { r.id : r \in { x \in BagToSet(Visible(c, "team")) : x.id \in team_ids } }

\* SELECT id FROM player WHERE id = ANY(%s)
get_existing_players(c, player_ids) ==
    { r.id : r \in { x \in BagToSet(Visible(c, "player")) : x.id \in player_ids } }

\* The ids of the entries of a sequence of teams or players.
TeamIdsOf(ts) == { ts[i].team_id : i \in 1..Len(ts) }
PlayerIdsOf(ps) == { ps[i].player_id : i \in 1..Len(ps) }

\* load_teams up to its first INSERT: the teams of the document that the
\* existence check does not find, home team first.
NewTeams(c, teams_data) ==
    LET teams_to_insert == << teams_data.homeTeam, teams_data.awayTeam >>
        existing_teams == get_existing_teams(c, TeamIdsOf(teams_to_insert))
        IsNew(team) == team.team_id \notin existing_teams
    IN  SelectSeq(teams_to_insert, IsNew)

LoadTeams(c) ==
    /\ pc[c] = "load_teams"
    /\ new_teams' = [new_teams EXCEPT ![c] = NewTeams(c, doc[c].teams)]
    /\ Goto(c, IF new_teams'[c] = << >> THEN "load_players" ELSE "insert_team")
    /\ UNCHANGED << store, tx, doc, new_players, before, faulted, overlap, log, started >>

\* INSERT INTO team (id, name, logo_url) VALUES (...)
TeamRow(team) == [id |-> team.team_id, name |-> team.team_name]

\* One pass of the loop "for team in new_teams: cur.execute(INSERT ...)".  A
\* plain INSERT: a key the unique index already holds is an error.
InsertTeam(c) ==
    /\ pc[c] = "insert_team"
    /\ UNCHANGED faulted
    /\ LET team == Head(new_teams[c])
           answer == IndexAnswer(c, "team", team.team_id)
       IN  /\ answer # "blocked"
           /\ IF answer = "free"
              THEN /\ tx' = [tx EXCEPT ![c]["team"] = @ (+) SetToBag({TeamRow(team)})]
                   /\ new_teams' = [new_teams EXCEPT ![c] = Tail(@)]
                   /\ Goto(c, IF Tail(new_teams[c]) = << >>
                              THEN "load_players" ELSE "insert_team")
                   /\ UNCHANGED << store, doc, new_players, before, overlap, log, started >>
              ELSE RollbackAndRaise(c)

\* Mutant: a later occurrence of a player_id overwrites the earlier one.
RECURSIVE UniquePlayersLastWins(_, _)
UniquePlayersLastWins(all_players, seen) ==
    IF all_players = << >> THEN << >>
    ELSE LET player == Head(all_players)
             rest == Tail(all_players)
         IN  IF \E i \in 1..Len(rest) : rest[i].player_id = player.player_id
             THEN UniquePlayersLastWins(rest, seen)
             ELSE << player >> \o UniquePlayersLastWins(rest, seen)

\* unique_players: the entries of all_players, first occurrence of each
\* player_id kept, in order.
RECURSIVE UniquePlayers(_, _)
UniquePlayers(all_players, seen) ==
    IF all_players = << >> THEN << >>
    ELSE LET player == Head(all_players)
         IN  IF player.player_id \in seen
             THEN UniquePlayers(Tail(all_players), seen)
             ELSE << player >> \o
                  UniquePlayers(Tail(all_players), seen \cup {player.player_id})

\* load_players up to its first INSERT.
NewPlayers(c, players_data) ==
    LET all_players == players_data.home_team_players \o players_data.away_team_players
        players_list == UniquePlayers(all_players, {})
        existing_players == get_existing_players(c, PlayerIdsOf(players_list))
        IsNew(p) == p.player_id \notin existing_players
    IN  SelectSeq(players_list, IsNew)

LoadPlayers(c) ==
    /\ pc[c] = "load_players"
    /\ new_players' = [new_players EXCEPT ![c] = NewPlayers(c, doc[c].players)]
    /\ Goto(c, IF new_players'[c] = << >> THEN "load_match" ELSE "insert_player")
    /\ UNCHANGED << store, tx, doc, new_teams, before, faulted, overlap, log, started >>

\* INSERT INTO player (id, first_name, last_name, full_name, nationality)
PlayerRow(player) == [id |-> player.player_id, first_name |-> player.first_name]

\* One pass of the loop "for player in new_players: cur.execute(INSERT ...)".
InsertPlayer(c) ==
    /\ pc[c] = "insert_player"
    /\ UNCHANGED faulted
    /\ LET player == Head(new_players[c])
           answer == IndexAnswer(c, "player", player.player_id)
       IN  /\ answer # "blocked"
           /\ IF answer = "free"
              THEN /\ tx' = [tx EXCEPT ![c]["player"] =
                                @ (+) SetToBag({PlayerRow(player)})]
                   /\ new_players' = [new_players EXCEPT ![c] = Tail(@)]
                   /\ Goto(c, IF Tail(new_players[c]) = << >>
                              THEN "load_match" ELSE "insert_player")
                   /\ UNCHANGED << store, doc, new_teams, before, overlap, log, started >>
              ELSE RollbackAndRaise(c)

\* INSERT INTO match (...) VALUES (...) ON CONFLICT (match_id) DO NOTHING
\* RETURNING match_id
MatchRow(match) ==
    [match_id |-> match.match_id, home_team_id |-> match.home_team_id,
     away_team_id |-> match.away_team_id]

\* Mutant: the result of load_match is ignored and the load goes on.
MatchNotInsertedIgnored(c) ==
    /\ Goto(c, "load_player_match_stats")
    /\ UNCHANGED << store, tx, doc, new_teams, new_players, before, overlap,
                    log, started >>

\* Mutant: False is returned after a commit instead of a rollback.
MatchNotInsertedCommits(c) ==
    Finish(c, "False", [t \in Tables |-> store[t] (+) tx[c][t]],
           [tx EXCEPT ![c] = EmptyTables])

\* if not match_inserted: conn.rollback(); return False
MatchNotInserted(c) ==
    Finish(c, "False", store, [tx EXCEPT ![c] = EmptyTables])

\* load_match and the branch of load_transformed_match on its result: on a
\* conflict RETURNING yields no row and load_match returns False.
LoadMatch(c) ==
    /\ pc[c] = "load_match"
    /\ UNCHANGED faulted
    /\ LET match == doc[c].match
           answer == IndexAnswer(c, "match", match.match_id)
       IN  /\ answer # "blocked"
           /\ CASE answer = "free" ->
                     /\ tx' = [tx EXCEPT ![c]["match"] =
                                  @ (+) SetToBag({MatchRow(match)})]
                     /\ Goto(c, "load_player_match_stats")
                     /\ UNCHANGED << store, doc, new_teams, new_players, before,
                                     overlap, log, started >>
                [] answer = "conflict" -> MatchNotInserted(c)
                [] OTHER -> RollbackAndRaise(c)
\* The columns of a player_match_stats row: the keys of the first stat entry
\* without first_name and last_name.
StatRow(stat) ==
    [match_id |-> stat.match_id, player_id |-> stat.player_id,
     team_id |-> stat.team_id]

\* The foreign keys of player_match_stats (match_id, player_id, team_id).
ForeignKeysHold(c, stat) ==
    /\ stat.match_id \in Keys("match", Visible(c, "match"))
    /\ stat.player_id \in Keys("player", Visible(c, "player"))
    /\ stat.team_id \in Keys("team", Visible(c, "team"))

\* execute_batch of INSERT ... ON CONFLICT (match_id, player_id) DO NOTHING:
\* the rows staged after the batch, a row whose key is already held (by a
\* visible row or by an earlier row of the batch) being skipped.
RECURSIVE StageStats(_, _, _)
StageStats(rows, staged, held) ==
    IF rows = << >> THEN staged
    ELSE LET row == StatRow(Head(rows))
             k == Key("player_match_stats", row)
         IN  IF k \in held
             THEN StageStats(Tail(rows), staged, held)
             ELSE StageStats(Tail(rows), staged (+) SetToBag({row}), held \cup {k})

\* load_player_match_stats
LoadPlayerMatchStats(c) ==
    /\ pc[c] = "load_player_match_stats"
    /\ UNCHANGED faulted
    /\ LET rows == doc[c].player_stats
           answers == { IndexAnswer(c, tk[1], tk[2]) : tk \in PendingKeys(c) }
       IN  /\ "blocked" \notin answers
           /\ IF "deadlock" \in answers
                 \/ \E i \in 1..Len(rows) : ~ForeignKeysHold(c, rows[i])
              THEN RollbackAndRaise(c)
              ELSE /\ tx' = [tx EXCEPT ![c]["player_match_stats"] =
                                StageStats(rows, @,
                                    Keys("player_match_stats",
                                         Visible(c, "player_match_stats")))]
                   /\ Goto(c, "commit")
                   /\ UNCHANGED << store, doc, new_teams, new_players, before,
                                   overlap, log, started >>

\* Mutant: True is returned without a commit, and closing the connection
\* discards the transaction.
CommitForgotten(c) ==
    /\ pc[c] = "commit"
    /\ UNCHANGED faulted
    /\ Finish(c, "True", store, [tx EXCEPT ![c] = EmptyTables])

\* conn.commit(); return True
Commit(c) ==
    /\ pc[c] = "commit"
    /\ UNCHANGED faulted
    /\ Finish(c, "True", [t \in Tables |-> store[t] (+) tx[c][t]],
              [tx EXCEPT ![c] = EmptyTables])

\* The statements that write.
WriteStatements ==
    { "insert_team", "insert_player", "load_match", "load_player_match_stats",
      "commit" }

\* The write c executes next fails with an exception of the driver (a lost
\* connection, a constraint of a column, ...): the except clause rolls back
\* and re-raises.
Fail(c) ==
    /\ pc[c] \in WriteStatements
    /\ faulted' = [faulted EXCEPT ![c] = TRUE]
    /\ RollbackAndRaise(c)

----------------------------------------------------------------------------
(* transform_full_match.  A JSON object is a function on its keys (the     *)
(* empty object is << >>), a JSON string a sequence of characters, null    *)
(* the value None.                                                         *)

\* starters of each team in a raw document
MaxStarters == 11
\* substitutes of each team in a raw document
MaxSubs == 1

None == "None"

\* None, for a counter
NoValue == -1

Digits == << "0", "1", "2", "3", "4", "5", "6", "7", "8", "9" >>
IsDigit(ch) == \E i \in 1..10 : Digits[i] = ch
DigitValue(ch) == (CHOOSE i \in 1..10 : Digits[i] = ch) - 1

\* str(n) of a natural number: its decimal digits.
RECURSIVE Str(_)
Str(n) == IF n < 10 THEN << Digits[n + 1] >>
          ELSE Str(n \div 10) \o << Digits[(n % 10) + 1] >>

\* int(text) of a string of decimal digits.
RECURSIVE IntOfDigits(_)
IntOfDigits(text) ==
    IF Len(text) = 1 THEN DigitValue(text[1])
    ELSE 10 * IntOfDigits(SubSeq(text, 1, Len(text) - 1)) + DigitValue(text[Len(text)])

\* try: match_id = int(match_id_raw) / except (TypeError, ValueError):
\* match_id = match_id_raw
MatchIdOf(match_id_raw) ==
    IF match_id_raw # << >> /\ \A i \in 1..Len(match_id_raw) : IsDigit(match_id_raw[i])
    THEN IntOfDigits(match_id_raw)
    ELSE match_id_raw

clean_match_data(match_details) ==
    [match |->
        [match_id |-> MatchIdOf(match_details.content.matchFacts.matchId),
         home_team_id |-> match_details.header.teams[1].id,
         away_team_id |-> match_details.header.teams[2].id]]

clean_team_data(match_details) ==
    LET home == match_details.header.teams[1]
        away == match_details.header.teams[2]
    IN  [homeTeam |-> [team_id |-> home.id, team_name |-> home.name],
         awayTeam |-> [team_id |-> away.id, team_name |-> away.name]]

_extract_player_identity(player_node, team_id) ==
    [player_id |-> player_node.id, team_id |-> team_id,
     first_name |-> player_node.firstName]

\* The identities of the nodes of a lineup list, in order.
RECURSIVE Identities(_, _)
Identities(nodes, team_id) ==
    IF nodes = << >> THEN << >>
    ELSE << _extract_player_identity(Head(nodes), team_id) >>
         \o Identities(Tail(nodes), team_id)

\* Mutant: the key is looked for, its value is not.
PlayedIfKeyPresent(sub) == "performance" \in DOMAIN sub

\* if sub.get("performance") is not None
Played(sub) == "performance" \in DOMAIN sub /\ sub.performance # None

clean_player_info_data(match_details) ==
    LET home_team == match_details.content.lineup.homeTeam
        away_team == match_details.content.lineup.awayTeam
    IN  [home_team_players |->
             Identities(home_team.starters, home_team.id)
             \o Identities(SelectSeq(home_team.subs, Played), home_team.id),
         away_team_players |->
             Identities(away_team.starters, away_team.id)
             \o Identities(SelectSeq(away_team.subs, Played), away_team.id)]

\* dict.get(key, {}) for a string key
Get(dict, key) == IF key \in DOMAIN dict THEN dict[key] ELSE << >>

\* "not d" of a JSON object or list
IsEmpty(d) == DOMAIN d = {}

\* dict.get(key) of a counter
GetValue(dict, key) == IF key \in DOMAIN dict THEN dict[key] ELSE NoValue

\* node = stats_dict.get(label); "not node" holds of None and of {}.
extract_stat_total_first(stats_dict, label, fraction) ==
    LET node == Get(stats_dict, label)
        stat == Get(node, "stat")
    IN  IF IsEmpty(node)
        THEN IF fraction THEN << NoValue, NoValue >> ELSE NoValue
        ELSE IF fraction
             THEN << GetValue(stat, "total"), GetValue(stat, "value") >>
             ELSE GetValue(stat, "value")

extract_stat(stats_dict, label, fraction) ==
    LET node == Get(stats_dict, label)
        stat == Get(node, "stat")
    IN  IF IsEmpty(node)
        THEN IF fraction THEN << NoValue, NoValue >> ELSE NoValue
        ELSE IF fraction
             THEN << GetValue(stat, "value"), GetValue(stat, "total") >>
             ELSE GetValue(stat, "value")

\* collect_player_stats: the entry of a player flattened to label -> node,
\* a later category overwriting the labels of an earlier one; an entry
\* without "stats" is taken to be flat already.
RECURSIVE FlattenCategories(_, _)
FlattenCategories(stats_list, flat) ==
    IF stats_list = << >> THEN flat
    ELSE LET group_stats == Get(Head(stats_list), "stats")
         IN  FlattenCategories(Tail(stats_list),
                 [label \in DOMAIN flat \cup DOMAIN group_stats |->
                     IF label \in DOMAIN group_stats THEN group_stats[label]
                     ELSE flat[label]])

collect_player_stats(raw_player_stats_entry) ==
    IF IsEmpty(raw_player_stats_entry) THEN << >>
    ELSE LET stats_list == Get(raw_player_stats_entry, "stats")
         IN  IF IsEmpty(stats_list) /\ "stats" \notin DOMAIN raw_player_stats_entry
             THEN raw_player_stats_entry
             ELSE FlattenCategories(stats_list, << >>)

\* raw_stats_entry: looked up under str(pid), then under the number pid; the
\* keys of a JSON object are strings, so the second lookup finds nothing.
RawStatsEntry(player_stats_raw, pid) ==
    IF ~IsEmpty(Get(player_stats_raw, Str(pid)))
    THEN Get(player_stats_raw, Str(pid))
    ELSE << >>

\* process_players: one row per node of the list, in order.
RECURSIVE process_players(_, _, _, _)
process_players(players, team_id, player_stats_raw, match_id) ==
    IF players = << >> THEN << >>
    ELSE LET p == Head(players)
         IN  << [match_id |-> match_id, player_id |-> p.id, team_id |-> team_id,
                 first_name |-> p.firstName,
                 has_stats |-> ~IsEmpty(RawStatsEntry(player_stats_raw, p.id)),
                 goals |-> extract_stat(
                               collect_player_stats(RawStatsEntry(player_stats_raw, p.id)),
                               "Goals", FALSE)] >>
             \o process_players(Tail(players), team_id, player_stats_raw, match_id)

clean_player_stats_data(match_details, player_stats_raw, match_id) ==
    LET home_team == match_details.content.lineup.homeTeam
        away_team == match_details.content.lineup.awayTeam
        home_players == home_team.starters \o home_team.subs
        away_players == away_team.starters \o away_team.subs
    IN  process_players(home_players, home_team.id, player_stats_raw, match_id)
        \o process_players(away_players, away_team.id, player_stats_raw, match_id)

\* Mutant: the captured mapping is the source, whatever it holds.
StatSourceCapturedOnly(raw) == Get(raw, "playerStats")

\* The playerStats the rows are built from: the captured mapping, or, when
\* that is empty, matchDetails.content.playerStats if there is one.
StatSource(raw) ==
    LET match_details == raw.matchDetails
        player_stats_raw == Get(raw, "playerStats")
    IN  IF IsEmpty(player_stats_raw)
           /\ "content" \in DOMAIN match_details
           /\ "playerStats" \in DOMAIN match_details.content
        THEN match_details.content.playerStats
        ELSE player_stats_raw

transform_full_match(raw) ==
    LET match_details == raw.matchDetails
        match_data == clean_match_data(match_details)
    IN  [match |-> match_data.match,
         teams |-> clean_team_data(match_details),
         players |-> clean_player_info_data(match_details),
         player_stats |->
             clean_player_stats_data(match_details, StatSource(raw),
                                     match_data.match.match_id)]

\* The raw documents: n starters per team (home 1..n, away 101..100+n), the
\* substitutes of each team given by their performance markers (home from
\* 51, away from 151), and a playerStats payload for every starter.  A
\* marker is an object ("rating"), null (None), or the key is missing.
Missing == "missing"

LineupNode(id, performance) ==
    IF performance = Missing
    THEN [id |-> id, firstName |-> << "p", id >>]
    ELSE [id |-> id, firstName |-> << "p", id >>, performance |-> performance]

Lineup(team_id, first, n, markers) ==
    [id |-> team_id,
     starters |-> [i \in 1..n |-> LineupNode(first + i, "rating")],
     subs |-> [i \in 1..Len(markers) |-> LineupNode(first + 50 + i, markers[i])]]

\* The playerStats entry of a player: one category with the node of the
\* label "Goals".
PlayerStatsEntry(id, goals) ==
    [id |-> id,
     stats |-> << [title |-> "Top stats",
                   stats |-> [Goals |-> [key |-> "goals",
                                         stat |-> [value |-> goals]]]] >>]

\* A playerStats mapping: str(id) -> entry, for the players of ids.
PlayerStatsOf(ids, goals) ==
    [k \in { Str(i) : i \in ids } |-> PlayerStatsEntry(IntOfDigits(k), goals)]

\* The goals in the captured entries, and in the entries embedded in
\* matchDetails.
CapturedGoals == 1
EmbeddedGoals == 2

RawDoc(n, home_markers, away_markers) ==
    [matchId |-> << "7" >>,
     matchDetails |->
        [header |-> [teams |-> << [id |-> 1, name |-> "home", score |-> 2],
                                  [id |-> 2, name |-> "away", score |-> 1] >>],
         content |-> [matchFacts |-> [matchId |-> << "7" >>],
                      lineup |-> [homeTeam |-> Lineup(1, 0, n, home_markers),
                                  awayTeam |-> Lineup(2, 100, n, away_markers)]]],
     playerStats |-> PlayerStatsOf((1..n) \cup (101..(100 + n)), CapturedGoals)]

Markers ==
    UNION { [1..k -> { None, "rating", Missing }] : k \in 0..MaxSubs }

RawDocs ==
    { RawDoc(n, hm, am) : n \in 1..MaxStarters, hm \in Markers, am \in Markers }

\* The raw documents with every kind of stat source: the captured mapping is
\* missing, empty, holds the home starters only, or all starters; an entry
\* for every starter is embedded in matchDetails.content, or none is.
CapturedKinds == { "missing", "empty", "home", "all" }

WithSources(raw, captured, embedded) ==
    LET n == Len(raw.matchDetails.content.lineup.homeTeam.starters)
        starters == (1..n) \cup (101..(100 + n))
        content == raw.matchDetails.content
        match_details ==
            IF embedded
            THEN [raw.matchDetails EXCEPT !.content =
                     [matchFacts |-> content.matchFacts, lineup |-> content.lineup,
                      playerStats |-> PlayerStatsOf(starters, EmbeddedGoals)]]
            ELSE raw.matchDetails
    IN  CASE captured = "missing" ->
                 [matchId |-> raw.matchId, matchDetails |-> match_details]
          [] captured = "empty" ->
                 [matchId |-> raw.matchId, matchDetails |-> match_details,
                  playerStats |-> << >>]
          [] captured = "home" ->
                 [matchId |-> raw.matchId, matchDetails |-> match_details,
                  playerStats |-> PlayerStatsOf(1..n, CapturedGoals)]
          [] OTHER ->
                 [matchId |-> raw.matchId, matchDetails |-> match_details,
                  playerStats |-> raw.playerStats]

SourceDocs ==
    { WithSources(raw, captured, embedded) :
        raw \in RawDocs, captured \in CapturedKinds, embedded \in BOOLEAN }

MaxTransformCalls == 2

\* print_sorted_players_by_scores(cleaned_rows, match_id), the last statement
\* of clean_player_stats_data before its return: a section headed by the
\* match id is appended to the rankings file.
print_sorted_players_by_scores(file, match_id) == Append(file, match_id)

\* The pipeline hands a raw document to transform_full_match.
Transform ==
    /\ raw_json # NoRaw
    /\ started = 0
    /\ Len(rankings_file) < MaxTransformCalls
    /\ transformed' = transform_full_match(raw_json)
    /\ rankings_file' =
           print_sorted_players_by_scores(rankings_file,
                                          transform_full_match(raw_json).match.match_id)
    /\ UNCHANGED << loaderVars, raw_json, classifierVars, stageVars >>

\* The transformed document is loaded, once, on connection 1.
StartLoadTransformed ==
    /\ transformed # NoDoc
    /\ started = 0
    /\ StartLoad(1, transformed)

----------------------------------------------------------------------------
(* The status decision of get_match_urls_from_start_to_current_round on    *)
(* the inner text of a fixture row.  A text is a sequence of characters.   *)

\* tokens a row text is made of
MaxTokens == 3

LowerCase ==
    << "a", "b", "c", "d", "e", "f", "g", "h", "i", "j", "k", "l", "m",
       "n", "o", "p", "q", "r", "s", "t", "u", "v", "w", "x", "y", "z" >>
UpperCase ==
    << "A", "B", "C", "D", "E", "F", "G", "H", "I", "J", "K", "L", "M",
       "N", "O", "P", "Q", "R", "S", "T", "U", "V", "W", "X", "Y", "Z" >>

IsLower(ch) == \E i \in 1..26 : LowerCase[i] = ch
IsUpper(ch) == \E i \in 1..26 : UpperCase[i] = ch

\* row_text.upper()
UpperChar(ch) ==
    IF IsLower(ch) THEN UpperCase[CHOOSE i \in 1..26 : LowerCase[i] = ch] ELSE ch
ToUpper(text) == [i \in 1..Len(text) |-> UpperChar(text[i])]

\* \w, \s and \d of the regular expressions
IsWordChar(ch) == IsLower(ch) \/ IsUpper(ch) \/ IsDigit(ch) \/ ch = "_"
IsSpace(ch) == ch \in { " ", "\n", "\t", "\r" }

\* sub in text
Contains(text, sub) ==
    \E i \in 1..(Len(text) - Len(sub) + 1) : SubSeq(text, i, i + Len(sub) - 1) = sub

\* re.search(r'\bWORD\b', text) for a word of word characters
SearchWord(text, word) ==
    \E i \in 1..(Len(text) - Len(word) + 1) :
        LET j == i + Len(word) - 1
        IN  /\ SubSeq(text, i, j) = word
            /\ (i = 1 \/ ~IsWordChar(text[i - 1]))
            /\ (j = Len(text) \/ ~IsWordChar(text[j + 1]))

\* re.search(r'\d{1,2}:\d{2}', text)
SearchTime(text) ==
    \E i \in 1..Len(text) : \E n \in 1..2 :
        /\ i + n + 2 <= Len(text)
        /\ \A k \in i..(i + n - 1) : IsDigit(text[k])
        /\ text[i + n] = ":"
        /\ IsDigit(text[i + n + 1])
        /\ IsDigit(text[i + n + 2])

\* re.search(r'\d+\s*-\s*\d+', text)
SearchScore(text) ==
    \E h \in 1..Len(text) :
        /\ text[h] = "-"
        /\ \E a \in 1..(h - 1) :
               /\ IsDigit(text[a])
               /\ \A k \in (a + 1)..(h - 1) : IsSpace(text[k])
        /\ \E b \in (h + 1)..Len(text) :
               /\ IsDigit(text[b])
               /\ \A k \in (h + 1)..(b - 1) : IsSpace(text[k])

\* Mutant: FT is looked for in the text as it is, not in its upper case.
DecideStatusCaseSensitive(text) ==
    LET row_text_upper == ToUpper(text)
    IN  IF Contains(text, << "F", "T" >>) THEN "COMPLETED"
        ELSE IF SearchWord(row_text_upper, << "L", "I", "V", "E" >>)
                \/ SearchWord(row_text_upper, << "H", "T" >>)
             THEN "LIVE_OR_HALFTIME"
        ELSE IF SearchTime(text) THEN "SCHEDULED"
        ELSE IF SearchScore(text) THEN "COMPLETED"
        ELSE "UNKNOWN"

\* The branches of the loop body on row_text: "COMPLETED" where the row's
\* URL is built, the others where the row is skipped as LIVE/HT, as
\* scheduled and as of unknown status.
DecideStatus(text) ==
    LET row_text_upper == ToUpper(text)
        has_ft == Contains(row_text_upper, << "F", "T" >>)
        has_time_pattern == SearchTime(text)
        has_live_status == SearchWord(row_text_upper, << "L", "I", "V", "E" >>)
        has_ht_status == SearchWord(row_text_upper, << "H", "T" >>)
        has_score_pattern == SearchScore(text)
    IN  IF has_ft THEN "COMPLETED"
        ELSE IF has_live_status \/ has_ht_status THEN "LIVE_OR_HALFTIME"
        ELSE IF has_time_pattern THEN "SCHEDULED"
        ELSE IF has_score_pattern THEN "COMPLETED"
        ELSE "UNKNOWN"

\* The pieces the row texts of the model are made of.
Tokens ==
    { << "F", "T" >>, << "f", "t" >>, << "H", "T" >>, << "L", "I", "V", "E" >>,
      << "1", ":", "3", "0" >>, << "2", "-", "1" >>, << " ", "-", "\n" >>,
      << " " >>, << "x" >>, << "1" >>, << ":" >>, << "'" >> }

RECURSIVE Concat(_)
Concat(pieces) ==
    IF pieces = << >> THEN << >> ELSE Head(pieces) \o Concat(Tail(pieces))

Texts ==
    { Concat(pieces) : pieces \in UNION { [1..k -> Tokens] : k \in 0..MaxTokens } }

\* The loop body decides the status of one row.
Classify ==
    /\ status = "NONE"
    /\ status' = DecideStatus(row_text)
    /\ UNCHANGED << loaderVars, transformVars, row_text, stageVars >>

----------------------------------------------------------------------------
(* get_match_urls_from_start_to_current_round: the scan of the fixture     *)
(* pages of the rounds start_round..end_round.  URLs and hrefs are         *)
(* sequences of characters.                                                *)

MaxRound == 3

\* FOTMOB_BASE_URL
FOTMOB_BASE_URL ==
    << "h", "t", "t", "p", "s", ":", "/", "/", "w", "w", "w", ".", "f", "o",
       "t", "m", "o", "b", ".", "c", "o", "m" >>

\* The characters of the model's URLs in the order of their code points.
CodePoints ==
    << "#", ".", "/", "0", "1", "2", "3", "4", "5", "6", "7", "8", "9", ":",
       "=", "a", "b", "c", "e", "f", "h", "i", "l", "m", "n", "o", "p", "s",
       "t", "u", "w" >>
Ord(ch) == CHOOSE k \in 1..Len(CodePoints) : CodePoints[k] = ch

\* a < b for two strings, as sorted() compares them
RECURSIVE StrLess(_, _)
StrLess(a, b) ==
    IF b = << >> THEN FALSE
    ELSE IF a = << >> THEN TRUE
    ELSE IF Head(a) # Head(b) THEN Ord(Head(a)) < Ord(Head(b))
    ELSE StrLess(Tail(a), Tail(b))

\* sorted(all_urls)
RECURSIVE Sorted(_)
Sorted(S) ==
    IF S = {} THEN << >>
    ELSE LET least == CHOOSE x \in S : \A y \in S \ {x} : StrLess(x, y)
         IN  << least >> \o Sorted(S \ {least})

\* text.split(sep) for a one-character separator
RECURSIVE Split(_, _)
Split(text, sep) ==
    IF \A k \in 1..Len(text) : text[k] # sep THEN << text >>
    ELSE LET at == CHOOSE k \in 1..Len(text) :
                       text[k] = sep /\ \A j \in 1..(k - 1) : text[j] # sep
         IN  << SubSeq(text, 1, at - 1) >>
                 \o Split(SubSeq(text, at + 1, Len(text)), sep)

\* text.startswith(prefix)
StartsWith(text, prefix) ==
    Len(prefix) <= Len(text) /\ SubSeq(text, 1, Len(prefix)) = prefix

\* Mutant: the fragment of the href is not cut off the base.
BuildUrlFullAsBase(href) ==
    LET full == IF StartsWith(href, << "h", "t", "t", "p" >>) THEN href
                ELSE FOTMOB_BASE_URL \o href
        parts == Split(full, "#")
        slashed == Split(full, "/")
        match_id == IF Contains(href, << "#" >>) THEN Split(href, "#")[2]
                    ELSE IF Len(parts) > 1 THEN parts[2]
                    ELSE slashed[Len(slashed)]
    IN  full \o << "#" >> \o match_id
            \o << ":", "t", "a", "b", "=", "l", "i", "n", "e", "u", "p" >>

\* The URL built from the href of a completed row.
BuildUrl(href) ==
    LET full == IF StartsWith(href, << "h", "t", "t", "p" >>) THEN href
                ELSE FOTMOB_BASE_URL \o href
        parts == Split(full, "#")
        slashed == Split(full, "/")
        match_id == IF Contains(href, << "#" >>) THEN Split(href, "#")[2]
                    ELSE IF Len(parts) > 1 THEN parts[2]
                    ELSE slashed[Len(slashed)]
        base_url == parts[1]
    IN  base_url \o << "#" >> \o match_id
            \o << ":", "t", "a", "b", "=", "l", "i", "n", "e", "u", "p" >>

\* Mutant: the scan stops one round short of end_round.
RoundRangeExclusive(first, last) == first..(last - 1)

\* range(start_round, end_round + 1)
RoundRange(first, last) == first..last

\* The hrefs of the model; no href is the empty string.
NoHref == << >>
HrefMatch1 == << "/", "m", "/", "a", "#", "1" >>
HrefMatch1Absolute == FOTMOB_BASE_URL \o HrefMatch1
HrefMatch2 == << "/", "m", "/", "b", "#", "2" >>
HrefMatch3 == << "/", "m", "/", "3" >>

\* The fixture rows of the model: completed rows with a relative, an absolute
\* and a fragment-less href and with none, and rows of the other statuses.
FixtureRows ==
    { [text |-> << "F", "T" >>, href |-> HrefMatch2],
      [text |-> << "F", "T" >>, href |-> HrefMatch1],
      [text |-> << "2", "-", "1" >>, href |-> HrefMatch1Absolute],
      [text |-> << "2", " ", "-", " ", "0" >>, href |-> HrefMatch3],
      [text |-> << "F", "T" >>, href |-> NoHref],
      [text |-> << "L", "I", "V", "E" >>, href |-> HrefMatch1],
      [text |-> << "1", ":", "3", "0" >>, href |-> HrefMatch2],
      [text |-> << "x" >>, href |-> HrefMatch3] }

\* What a fixture page can show: no row, one row or two rows.
Pages ==
    { << >> } \cup { << r >> : r \in FixtureRows }
        \cup { << r, r2 >> : r \in FixtureRows, r2 \in FixtureRows }

notDiscoverVars == << loaderVars, transformVars, classifierVars, captureVars,
                      pipelineVars,
                      positionVars, functionVars >>

\* The head of the loop over the rounds, and what follows the loop:
\* browser.close(), sorted(all_urls) and the return.
NextRound(r) ==
    IF r \in RoundRange(start_round, end_round)
    THEN /\ rnd' = r
         /\ disc_pc' = "goto"
         /\ UNCHANGED result
    ELSE /\ rnd' = r
         /\ disc_pc' = "returned"
         /\ result' = Sorted(all_urls)

\* The call get_match_urls_from_start_to_current_round(start_round, end_round).
StartDiscover ==
    /\ disc_pc = "idle"
    /\ NextRound(start_round)
    /\ UNCHANGED << start_round, end_round, page_rows, row_i, all_urls, rows_seen, visited >>
    /\ UNCHANGED notDiscoverVars

\* page.goto(url) succeeds and the rows of the page are located.
GotoRound ==
    /\ disc_pc = "goto"
    /\ \E page \in Pages :
           /\ page_rows' = page
           /\ rows_seen' = rows_seen \cup { page[k] : k \in 1..Len(page) }
    /\ visited' = visited \cup {rnd}
    /\ row_i' = 1
    /\ disc_pc' = "rows"
    /\ UNCHANGED << start_round, end_round, rnd, all_urls, result >>
    /\ UNCHANGED notDiscoverVars

\* page.goto(url) raises (time-out, navigation error); nothing in the
\* function catches it, so the call ends with the exception.
GotoFails ==
    /\ disc_pc = "goto"
    /\ disc_pc' = "raised"
    /\ UNCHANGED << start_round, end_round, rnd, page_rows, row_i, all_urls, result,
                    rows_seen, visited >>
    /\ UNCHANGED notDiscoverVars

\* The body of the loop over the rows, for row row_i.
ProcessRow ==
    /\ disc_pc = "rows"
    /\ row_i <= Len(page_rows)
    /\ LET href == page_rows[row_i].href
           text == page_rows[row_i].text
       IN  IF href = NoHref THEN UNCHANGED all_urls
           ELSE IF DecideStatus(text) # "COMPLETED" THEN UNCHANGED all_urls
           ELSE all_urls' = all_urls \cup { BuildUrl(href) }
    /\ row_i' = row_i + 1
    /\ UNCHANGED << start_round, end_round, rnd, page_rows, disc_pc, result,
                    rows_seen, visited >>
    /\ UNCHANGED notDiscoverVars

\* The rows of the page are done: on to the next round.
RowsDone ==
    /\ disc_pc = "rows"
    /\ row_i > Len(page_rows)
    /\ NextRound(rnd + 1)
    /\ UNCHANGED << start_round, end_round, page_rows, row_i, all_urls, rows_seen, visited >>
    /\ UNCHANGED notDiscoverVars

----------------------------------------------------------------------------
(* scrape_match_fast: the capture of one match.  The response handler runs *)
(* once per network response and waits for the body to be parsed; the      *)
(* waits of several handlers end in any order.                             *)

MaxResponses == 3

\* The values of the "error" entry of a payload ("absent": no such entry).
ErrorValues == { "absent", "false", "empty", "true", "message" }

\* What res.json() can give: an object, a list, or an exception.
Bodies ==
    [kind : {"dict"}, error : ErrorValues]
        \cup { [kind |-> "list", error |-> "absent"],
               [kind |-> "unparsable", error |-> "absent"] }

\* match_details_json = {"data": None}
NoPayload == [kind |-> "None", error |-> "absent"]

\* bool(md.get("error")) for the values of the model
Truthy(value) == value \in { "true", "message" }

S_matchDetails ==
    << "/", "m", "a", "t", "c", "h", "D", "e", "t", "a", "i", "l", "s",
       "?" >>
S_matchId ==
    << "m", "a", "t", "c", "h", "I", "d", "=" >>
S_playerId ==
    << "p", "l", "a", "y", "e", "r", "I", "d", "=" >>

\* The URLs of the responses of the model.
UrlDetails1 ==
    << "/", "a", "p", "i", "/", "m", "a", "t", "c", "h", "D", "e", "t",
       "a", "i", "l", "s", "?", "m", "a", "t", "c", "h", "I", "d", "=",
       "1" >>
UrlDetails12 ==
    << "/", "a", "p", "i", "/", "m", "a", "t", "c", "h", "D", "e", "t",
       "a", "i", "l", "s", "?", "m", "a", "t", "c", "h", "I", "d", "=",
       "1", "2" >>
UrlPlayer7 ==
    << "/", "a", "p", "i", "/", "p", "l", "a", "y", "e", "r", "D", "a",
       "t", "a", "?", "p", "l", "a", "y", "e", "r", "I", "d", "=", "7",
       "&", "m", "a", "t", "c", "h", "I", "d", "=", "1" >>
UrlPlayer8 ==
    << "/", "a", "p", "i", "/", "p", "l", "a", "y", "e", "r", "D", "a",
       "t", "a", "?", "p", "l", "a", "y", "e", "r", "I", "d", "=", "8",
       "&", "m", "a", "t", "c", "h", "I", "d", "=", "1" >>
UrlOther ==
    << "/", "a", "p", "i", "/", "t", "v", "?", "m", "a", "t", "c", "h",
       "I", "d", "=", "1" >>

Responses ==
    ({ UrlDetails1, UrlDetails12 } \X Bodies)
        \cup ({ UrlPlayer7, UrlPlayer8, UrlOther }
                 \X { [kind |-> "dict", error |-> "absent"],
                      [kind |-> "unparsable", error |-> "absent"] })

\* The URLs capture is called with: those discovery emits.
CaptureUrls == { BuildUrl(HrefMatch1), BuildUrl(HrefMatch2) }

\* match_url.split("#")[1].split(":")[0]
MatchIdFromUrl(url) == Split(Split(url, "#")[2], ":")[1]

\* "/matchDetails?" in url and f"matchId={match_id}" in url
IsDetailsResponse(url) ==
    Contains(url, S_matchDetails) /\ Contains(url, S_matchId \o scrape_match_id)

\* "playerId=" in url and f"matchId={match_id}" in url
IsPlayerResponse(url) ==
    Contains(url, S_playerId) /\ Contains(url, S_matchId \o scrape_match_id)

\* re.search(r"playerId=(\d+)", url): the digits of the first match, or the
\* empty string when there is no match.
PlayerIdIn(url) ==
    LET starts == { k \in 1..(Len(url) - Len(S_playerId)) :
                      /\ SubSeq(url, k, k + Len(S_playerId) - 1) = S_playerId
                      /\ IsDigit(url[k + Len(S_playerId)]) }
    IN  IF starts = {} THEN << >>
        ELSE LET first == (CHOOSE k \in starts : \A k2 \in starts : k <= k2)
                              + Len(S_playerId)
                 last == CHOOSE e \in first..Len(url) :
                             /\ \A j \in first..e : IsDigit(url[j])
                             /\ (e = Len(url) \/ ~IsDigit(url[e + 1]))
             IN  SubSeq(url, first, last)

\* Mutant: only a missing payload is refused.
UnusableOnlyNone(md) == md = NoPayload

\* md is None or (isinstance(md, dict) and md.get("error"))
Unusable(md) ==
    \/ md = NoPayload
    \/ md.kind = "dict" /\ Truthy(md.error)

notCaptureVars == << loaderVars, transformVars, classifierVars, discoverVars,
                     pipelineVars,
                      positionVars, functionVars >>

\* scrape_match_fast(match_url) up to page.on("response", handle_response)
StartCapture ==
    /\ cap_pc = "idle"
    /\ scrape_match_id' = MatchIdFromUrl(match_url)
    /\ match_details_json' = [data |-> NoPayload]
    /\ player_stats_json' = << >>
    /\ cap_pc' = "goto"
    /\ UNCHANGED << match_url, in_flight, arrived, at_close, cap_result >>
    /\ UNCHANGED << latest_parsed, notCaptureVars >>

\* A response arrives while the page is open: handle_response runs up to its
\* first await; a response of neither signature ends the handler at once.
ResponseArrives ==
    /\ cap_pc \in { "goto", "click", "settle" }
    /\ arrived < MaxResponses
    /\ \E res \in Responses :
           /\ arrived' = arrived + 1
           /\ in_flight' =
                  IF IsDetailsResponse(res[1]) \/ IsPlayerResponse(res[1])
                  THEN in_flight \cup { [url |-> res[1], body |-> res[2], n |-> arrived + 1] }
                  ELSE in_flight
    /\ UNCHANGED << match_url, scrape_match_id, match_details_json, player_stats_json,
                    cap_pc, at_close, cap_result >>
    /\ UNCHANGED << latest_parsed, notCaptureVars >>

\* res.json() of a waiting handler ends, and the handler runs to its end.
ResponseParsed ==
    /\ cap_pc \in { "goto", "click", "settle" }
    /\ \E h \in in_flight :
           LET parsed == h.body.kind # "unparsable"
               pid_val == PlayerIdIn(h.url)
           IN  /\ in_flight' = in_flight \ {h}
               /\ match_details_json' =
                      IF IsDetailsResponse(h.url) /\ parsed
                      THEN [data |-> h.body] ELSE match_details_json
               /\ player_stats_json' =
                      IF IsPlayerResponse(h.url) /\ parsed /\ pid_val # << >>
                      THEN [k \in DOMAIN player_stats_json \cup {pid_val} |->
                               IF k = pid_val THEN h.body ELSE player_stats_json[k]]
                      ELSE player_stats_json
               /\ latest_parsed' =
                      IF IsDetailsResponse(h.url) /\ parsed /\ h.n > latest_parsed.n
                      THEN [n |-> h.n, body |-> h.body] ELSE latest_parsed
    /\ UNCHANGED << match_url, scrape_match_id, arrived, cap_pc, at_close, cap_result >>
    /\ UNCHANGED notCaptureVars

\* page.goto(match_url), the click on the Lineup button and the fixed wait
\* end, one after the other.
PageStep ==
    /\ cap_pc \in { "goto", "click", "settle" }
    /\ cap_pc' = CASE cap_pc = "goto" -> "click"
                   [] cap_pc = "click" -> "settle"
                   [] cap_pc = "settle" -> "close"
    /\ UNCHANGED << match_url, scrape_match_id, match_details_json, player_stats_json,
                    in_flight, arrived, at_close, cap_result >>
    /\ UNCHANGED << latest_parsed, notCaptureVars >>

\* page.goto or the click on the Lineup button raises; nothing catches it.
PageFails ==
    /\ cap_pc \in { "goto", "click" }
    /\ cap_pc' = "page_error"
    /\ in_flight' = {}
    /\ UNCHANGED << match_url, scrape_match_id, match_details_json, player_stats_json,
                    arrived, at_close, cap_result >>
    /\ UNCHANGED << latest_parsed, notCaptureVars >>

\* browser.close(): the handlers still waiting never store anything.
ClosePage ==
    /\ cap_pc = "close"
    /\ in_flight' = {}
    /\ at_close' = match_details_json.data
    /\ cap_pc' = "closed"
    /\ UNCHANGED << match_url, scrape_match_id, match_details_json, player_stats_json,
                    arrived, cap_result >>
    /\ UNCHANGED << latest_parsed, notCaptureVars >>

NoCapture == [matchId |-> << >>, matchDetails |-> NoPayload, playerStats |-> << >>]

\* The check of md, and the return.
Validate ==
    /\ cap_pc = "closed"
    /\ LET md == match_details_json.data
       IN  IF Unusable(md)
           THEN /\ cap_pc' = "capture_error"
                /\ UNCHANGED cap_result
           ELSE /\ cap_pc' = "returned"
                /\ cap_result' = [matchId |-> scrape_match_id,
                                  matchDetails |-> match_details_json.data,
                                  playerStats |-> player_stats_json]
    /\ UNCHANGED << match_url, scrape_match_id, match_details_json, player_stats_json,
                    in_flight, arrived, at_close >>
    /\ UNCHANGED << latest_parsed, notCaptureVars >>

InitCaptureIdle ==
    /\ match_url = << >>
    /\ scrape_match_id = << >>
    /\ match_details_json = [data |-> NoPayload]
    /\ player_stats_json = << >>
    /\ in_flight = {}
    /\ arrived = 0
    /\ cap_pc = "idle"
    /\ at_close = NoPayload
    /\ cap_result = NoCapture
    /\ latest_parsed = [n |-> 0, body |-> NoPayload]

----------------------------------------------------------------------------
(* run_pipeline_backfill: discovery, then for every match capture (unless  *)
(* the raw file exists), save_match, the read of the raw file, transform   *)
(* and the write of the transformed file.  Files are written in chunks; a  *)
(* file is complete when all FileChunks chunks of the document are in it.  *)

MaxRuns == 2
FileChunks == 2

\* The matches of the backfill, by match id.
BackfillMatches == { 1, 2 }

\* What scrape_match_fast can return: a document transform accepts, or one
\* whose matchDetails lacks what transform indexes (content.matchFacts,
\* header.teams).
RawKinds == { "good", "malformed" }

NoFile == [exists |-> FALSE, kind |-> "none", written |-> 0]
EmptyFile == [exists |-> TRUE, kind |-> "none", written |-> 0]

\* The file holds a whole JSON document.
Complete(file) == file.exists /\ file.written = FileChunks

\* The sorted sequence of a set of match ids.
RECURSIVE Ascending(_)
Ascending(S) ==
    IF S = {} THEN << >>
    ELSE LET least == CHOOSE x \in S : \A y \in S : x <= y
         IN  << least >> \o Ascending(S \ {least})

notPipelineVars == << loaderVars, transformVars, classifierVars, discoverVars,
                      captureVars,
                      positionVars, functionVars >>

\* run_pipeline_backfill(start_round, end_round): discovery returns the
\* matches, or raises.
StartRun ==
    /\ pipe_pc \in { "idle", "complete", "raised", "aborted" }
    /\ runs < MaxRuns
    /\ runs' = runs + 1
    /\ reached' = {}
    /\ raw_data' = "none"
    /\ url_i' = 1
    /\ \/ /\ \E S \in SUBSET BackfillMatches : match_urls' = Ascending(S)
          /\ pipe_pc' = "loop"
       \/ /\ match_urls' = << >>
          /\ pipe_pc' = "raised"
    /\ UNCHANGED << raw_files, transformed_files >>
    /\ UNCHANGED notPipelineVars

\* Mutant: the raw file is not looked for, every match is captured.
LoopHeadAlwaysScrapes ==
    /\ pipe_pc = "loop"
    /\ IF url_i > Len(match_urls)
       THEN /\ pipe_pc' = "complete"
            /\ UNCHANGED reached
       ELSE /\ reached' = reached \cup { match_urls[url_i] }
            /\ pipe_pc' = "scrape"
    /\ UNCHANGED << runs, match_urls, url_i, raw_files, transformed_files, raw_data >>
    /\ UNCHANGED notPipelineVars

\* for url in match_urls: ... if os.path.exists(raw_path)
LoopHead ==
    /\ pipe_pc = "loop"
    /\ IF url_i > Len(match_urls)
       THEN /\ pipe_pc' = "complete"
            /\ UNCHANGED reached
       ELSE /\ reached' = reached \cup { match_urls[url_i] }
            /\ pipe_pc' = IF raw_files[match_urls[url_i]].exists THEN "read" ELSE "scrape"
    /\ UNCHANGED << runs, match_urls, url_i, raw_files, transformed_files, raw_data >>
    /\ UNCHANGED notPipelineVars

\* try: raw_data = await scrape_match_fast(url) / except Exception: continue
Scrape ==
    /\ pipe_pc = "scrape"
    /\ \/ /\ \E kind \in RawKinds : raw_data' = kind
          /\ pipe_pc' = "save_match"
          /\ UNCHANGED url_i
       \/ /\ url_i' = url_i + 1
          /\ pipe_pc' = "loop"
          /\ UNCHANGED raw_data
    /\ UNCHANGED << runs, match_urls, raw_files, transformed_files, reached >>
    /\ UNCHANGED notPipelineVars

\* save_match: open(path, "w") creates the file, or empties it.
SaveOpen ==
    /\ pipe_pc = "save_match"
    /\ raw_files' = [raw_files EXCEPT ![match_urls[url_i]] = EmptyFile]
    /\ pipe_pc' = "json_dump"
    /\ UNCHANGED << runs, match_urls, url_i, transformed_files, raw_data, reached >>
    /\ UNCHANGED notPipelineVars

\* save_match: json.dump(raw_data, f) writes the next chunk into the file;
\* after the last one the file is closed.
SaveWrite ==
    /\ pipe_pc = "json_dump"
    /\ LET m == match_urls[url_i]
           n == raw_files[m].written + 1
       IN  /\ raw_files' = [raw_files EXCEPT ![m] =
                               [exists |-> TRUE, kind |-> raw_data, written |-> n]]
           /\ pipe_pc' = IF n = FileChunks THEN "read" ELSE "json_dump"
    /\ UNCHANGED << runs, match_urls, url_i, transformed_files, raw_data, reached >>
    /\ UNCHANGED notPipelineVars

\* with open(raw_path) as f: raw_json = json.load(f); a file that holds no
\* whole document makes json.load raise, and nothing catches it.
ReadRaw ==
    /\ pipe_pc = "read"
    /\ pipe_pc' = IF Complete(raw_files[match_urls[url_i]]) THEN "transform" ELSE "raised"
    /\ UNCHANGED << runs, match_urls, url_i, raw_files, transformed_files, raw_data,
                    reached >>
    /\ UNCHANGED notPipelineVars

\* transformed = transform_full_match(raw_json), then the write of the
\* transformed file; transform raises (KeyError, TypeError) on a document
\* that lacks what it indexes, and nothing catches it.
TransformAndWrite ==
    /\ pipe_pc = "transform"
    /\ LET m == match_urls[url_i]
       IN  IF raw_files[m].kind = "good"
           THEN /\ transformed_files' = transformed_files \cup {m}
                /\ url_i' = url_i + 1
                /\ pipe_pc' = "loop"
           ELSE /\ pipe_pc' = "raised"
                /\ UNCHANGED << transformed_files, url_i >>
    /\ UNCHANGED << runs, match_urls, raw_files, raw_data, reached >>
    /\ UNCHANGED notPipelineVars

\* The process is stopped (interrupt, kill, power) wherever the run is.
Abort ==
    /\ pipe_pc \in { "loop", "scrape", "save_match", "json_dump", "read", "transform" }
    /\ pipe_pc' = "aborted"
    /\ UNCHANGED << runs, match_urls, url_i, raw_files, transformed_files, raw_data,
                    reached >>
    /\ UNCHANGED notPipelineVars

InitPipeline ==
    /\ runs = 0
    /\ pipe_pc = "idle"
    /\ match_urls = << >>
    /\ url_i = 0
    /\ raw_files = [m \in BackfillMatches |-> NoFile]
    /\ transformed_files = {}
    /\ raw_data = "none"
    /\ reached = {}

----------------------------------------------------------------------------
(* _get_position_from_ids and its two tables.                              *)

MaxPositionId == 120
MaxUsualPositionId == 5

\* None, for an id
NoneId == -1

POSITION_ID_MAP ==
    11 :> << "GK", "GK" >> @@ 32 :> << "RB", "DF" >> @@
    33 :> << "CB", "DF" >> @@ 34 :> << "CB", "DF" >> @@
    35 :> << "CB", "DF" >> @@ 36 :> << "CB", "DF" >> @@
    37 :> << "CB", "DF" >> @@ 38 :> << "LB", "DF" >> @@
    62 :> << "RWB", "DF" >> @@ 51 :> << "RWB", "DF" >> @@
    59 :> << "LWB", "DF" >> @@ 68 :> << "LWB", "DF" >> @@
    66 :> << "DM", "MF" >> @@ 64 :> << "DM", "MF" >> @@
    65 :> << "DM", "MF" >> @@ 83 :> << "RW", "MF" >> @@
    103 :> << "RW", "MF" >> @@ 84 :> << "AM", "MF" >> @@
    85 :> << "AM", "MF" >> @@ 86 :> << "AM", "MF" >> @@
    78 :> << "LM", "MF" >> @@ 79 :> << "LM", "MF" >> @@
    72 :> << "RM", "MF" >> @@ 71 :> << "RM", "MF" >> @@
    73 :> << "CM", "MF" >> @@ 74 :> << "CM", "MF" >> @@
    75 :> << "CM", "MF" >> @@ 76 :> << "CM", "MF" >> @@
    77 :> << "CM", "MF" >> @@ 87 :> << "LW", "FW" >> @@
    107 :> << "LW", "FW" >> @@ 115 :> << "ST", "FW" >> @@
    106 :> << "ST", "FW" >> @@ 104 :> << "ST", "FW" >> @@
    105 :> << "ST", "FW" >>

USUAL_POSITION_ID_MAP ==
    0 :> << "GK", "GK" >> @@ 1 :> << "DF", "DF" >> @@ 2 :> << "MF", "MF" >>
    @@ 3 :> << "FW", "FW" >>

\* dict.get(key): the entry, or None (the empty tuple here, falsy as None is)
DictGet(dict, key) == IF key \in DOMAIN dict THEN dict[key] ELSE << >>

\* Mutant: the usual position is looked up first.
_get_position_usual_first(pos_id, usual_id) ==
    IF usual_id # NoneId /\ DictGet(USUAL_POSITION_ID_MAP, usual_id) # << >>
    THEN DictGet(USUAL_POSITION_ID_MAP, usual_id)
    ELSE IF pos_id # NoneId /\ DictGet(POSITION_ID_MAP, pos_id) # << >>
    THEN DictGet(POSITION_ID_MAP, pos_id)
    ELSE << "UNK", "UNK" >>

_get_position_from_ids(pos_id, usual_id) ==
    IF pos_id # NoneId /\ DictGet(POSITION_ID_MAP, pos_id) # << >>
    THEN DictGet(POSITION_ID_MAP, pos_id)
    ELSE IF usual_id # NoneId /\ DictGet(USUAL_POSITION_ID_MAP, usual_id) # << >>
    THEN DictGet(USUAL_POSITION_ID_MAP, usual_id)
    ELSE << "UNK", "UNK" >>

NoPosition == << >>

\* raw_pos, norm_pos = _get_position_from_ids(position_id, usual_pos_id)
MapPosition ==
    /\ position = NoPosition
    /\ position' = _get_position_from_ids(position_id, usual_pos_id)
    /\ UNCHANGED << position_id, usual_pos_id, stat_row, team_goals_conceded, scored >>
    /\ UNCHANGED << loaderVars, transformVars, classifierVars, discoverVars,
                    captureVars, pipelineVars, functionVars >>

----------------------------------------------------------------------------
(* The scores of a row.  A score is a whole number of units, PerHundredth  *)
(* units being 0.01 point; the unit is small enough for every product and  *)
(* quotient of the source to be exact.                                     *)

MaxCount == 2

RECURSIVE Gcd(_, _)
Gcd(a, b) == IF b = 0 THEN a ELSE Gcd(b, a % b)

RECURSIVE LcmUpTo(_)
LcmUpTo(n) == IF n <= 1 THEN 1 ELSE (LcmUpTo(n - 1) * n) \div Gcd(LcmUpTo(n - 1), n)

PerHundredth == 200 * LcmUpTo(MaxCount)

\* The counters of a row.
Counters ==
    {
      "saves", "goals_conceded", "act_as_sweeper", "diving_save",
      "high_claim", "saves_in_box", "punches", "throws", "tackles",
      "last_man_tackles", "blocks", "clearances", "headed_clearances",
      "interceptions", "recoveries", "dribbled_past", "fouls_committed",
      "defensive_actions", "ground_duels_completed",
      "ground_duels_attempted", "aerial_duels_completed",
      "aerial_duels_attempted", "goals", "assists", "total_shots",
      "shots_on_target", "touches", "touches_in_opp_box",
      "dribbles_completed", "dribbles_attempted", "passes_into_final_third",
      "passes_completed", "passes_attempted", "chances_created",
      "penalties_won", "dispossesed", "was_fouled", "crosses_completed",
      "crosses_attempted", "long_balls_completed", "long_balls_attempted",
      "own_goals", "errors_leading_to_goal" }

\* player_stats[k] * w if player_stats[k] is not None else 0
\* (w in hundredths)
W(x, w) == IF x # NoValue THEN x * w * PerHundredth ELSE 0

\* (completed / attempted) * w, appended when both are not None and
\* attempted > 0
Pct(completed, attempted, w) ==
    IF completed # NoValue /\ attempted # NoValue /\ attempted > 0
    THEN (completed * w * PerHundredth) \div attempted
    ELSE 0

calculate_player_goalkeeper_score(player_stats) ==
    LET raw_gk_score ==
        W(player_stats.saves, 15)
        + W(player_stats.saves_in_box, 10)
        + W(player_stats.diving_save, 5)
        + W(player_stats.high_claim, 5)
        + W(player_stats.punches, 3)
        + W(player_stats.act_as_sweeper, 5)
        + W(player_stats.goals_conceded, -10)
        + W(player_stats.own_goals, -50)
        + W(player_stats.errors_leading_to_goal, -30)
        + W(player_stats.passes_completed, 6)
        + Pct(player_stats.passes_completed, player_stats.passes_attempted, 6)
        + W(player_stats.passes_into_final_third, 5)
        + W(player_stats.long_balls_completed, 8)
        + Pct(player_stats.long_balls_completed, player_stats.long_balls_attempted, 8)
    IN  (raw_gk_score * 5) \div 2

calculate_player_defense_score(player_stats, conceded) ==
    W(player_stats.defensive_actions, 10)
        + W(player_stats.tackles, 12)
        + W(player_stats.last_man_tackles, 10)
        + W(player_stats.blocks, 8)
        + W(player_stats.clearances, 3)
        + W(player_stats.headed_clearances, 3)
        + W(player_stats.interceptions, 10)
        + W(player_stats.recoveries, 7)
        + W(player_stats.dribbled_past, -6)
        + W(player_stats.fouls_committed, -6)
        + Pct(player_stats.ground_duels_completed, player_stats.ground_duels_attempted, 12)
        + Pct(player_stats.aerial_duels_completed, player_stats.aerial_duels_attempted, 10)
        + W(player_stats.own_goals, -50)
        + W(player_stats.errors_leading_to_goal, -30)
        + (IF conceded = 0 THEN 75 * PerHundredth ELSE conceded * (-20) * PerHundredth)

calculate_player_midfield_score(player_stats) ==
    W(player_stats.goals, 40)
        + W(player_stats.assists, 25)
        + W(player_stats.passes_completed, 8)
        + Pct(player_stats.passes_completed, player_stats.passes_attempted, 12)
        + W(player_stats.long_balls_completed, 8)
        + W(player_stats.crosses_completed, 5)
        + W(player_stats.passes_into_final_third, 15)
        + W(player_stats.touches, 1)
        + W(player_stats.was_fouled, 5)
        + W(player_stats.dispossesed, -5)
        + W(player_stats.chances_created, 20)
        + W(player_stats.dribbles_completed, 7)
        + W(player_stats.touches_in_opp_box, 3)
        + W(player_stats.own_goals, -50)
        + W(player_stats.errors_leading_to_goal, -30)

\* Mutant: goals do not count for the forward score.
calculate_player_forward_score_no_goals(player_stats) ==
    W(player_stats.assists, 30)
        + W(player_stats.shots_on_target, 15)
        + W(player_stats.total_shots, 5)
        + W(player_stats.chances_created, 10)
        + W(player_stats.dribbles_completed, 10)
        + Pct(player_stats.dribbles_completed, player_stats.dribbles_attempted, 5)
        + W(player_stats.touches_in_opp_box, 5)
        + W(player_stats.penalties_won, 8)
        + W(player_stats.crosses_completed, 4)
        + W(player_stats.long_balls_completed, 2)
        + Pct(player_stats.ground_duels_completed, player_stats.ground_duels_attempted, 5)
        + Pct(player_stats.aerial_duels_completed, player_stats.aerial_duels_attempted, 5)
        + W(player_stats.own_goals, -50)
        + W(player_stats.errors_leading_to_goal, -30)

calculate_player_forward_score(player_stats) ==
    W(player_stats.goals, 60)
        + W(player_stats.assists, 30)
        + W(player_stats.shots_on_target, 15)
        + W(player_stats.total_shots, 5)
        + W(player_stats.chances_created, 10)
        + W(player_stats.dribbles_completed, 10)
        + Pct(player_stats.dribbles_completed, player_stats.dribbles_attempted, 5)
        + W(player_stats.touches_in_opp_box, 5)
        + W(player_stats.penalties_won, 8)
        + W(player_stats.crosses_completed, 4)
        + W(player_stats.long_balls_completed, 2)
        + Pct(player_stats.ground_duels_completed, player_stats.ground_duels_attempted, 5)
        + Pct(player_stats.aerial_duels_completed, player_stats.aerial_duels_attempted, 5)
        + W(player_stats.own_goals, -50)
        + W(player_stats.errors_leading_to_goal, -30)

\* Mutant: the weights of a midfielder are applied to a defender.
calculate_final_score_df_as_mf(pos, def_score, mid_score, off_score) ==
    IF pos = "DF" THEN (def_score * 20 + mid_score * 50 + off_score * 30) \div 100
    ELSE IF pos = "MF" THEN (def_score * 20 + mid_score * 50 + off_score * 30) \div 100
    ELSE IF pos = "FW" THEN (def_score * 10 + mid_score * 20 + off_score * 70) \div 100
    ELSE 0

calculate_final_score(pos, def_score, mid_score, off_score) ==
    IF pos = "DF" THEN (def_score * 65 + mid_score * 25 + off_score * 10) \div 100
    ELSE IF pos = "MF" THEN (def_score * 20 + mid_score * 50 + off_score * 30) \div 100
    ELSE IF pos = "FW" THEN (def_score * 10 + mid_score * 20 + off_score * 70) \div 100
    ELSE 0

\* A score of the row: None, or a number of units.
Null == [null |-> TRUE, units |-> 0]
Number(x) == [null |-> FALSE, units |-> x]

NoScores == [defense_score |-> Null, midfield_score |-> Null, forward_score |-> Null,
             goalkeeper_score |-> Null, final_score |-> Null]

\* Mutant: the goalkeeper branch leaves a defense score in the row.
ScoresOfRowGkWithDefense(row, norm_pos, conceded) ==
    IF norm_pos = "GK"
    THEN [defense_score |-> Number(calculate_player_defense_score(row, conceded)),
          midfield_score |-> Null, forward_score |-> Null,
          goalkeeper_score |-> Number(calculate_player_goalkeeper_score(row)),
          final_score |-> Number(calculate_player_goalkeeper_score(row))]
    ELSE LET defense_score == calculate_player_defense_score(row, conceded)
             midfield_score == calculate_player_midfield_score(row)
             forward_score == calculate_player_forward_score(row)
         IN  [defense_score |-> Number(defense_score),
              midfield_score |-> Number(midfield_score),
              forward_score |-> Number(forward_score),
              goalkeeper_score |-> Null,
              final_score |-> Number(calculate_final_score(norm_pos, defense_score,
                                                            midfield_score, forward_score))]

\* if row["normalized_position"] == "GK": ... else: ...
ScoresOfRow(row, norm_pos, conceded) ==
    IF norm_pos = "GK"
    THEN LET goalkeeper_score == calculate_player_goalkeeper_score(row)
         IN  [defense_score |-> Null, midfield_score |-> Null, forward_score |-> Null,
              goalkeeper_score |-> Number(goalkeeper_score),
              final_score |-> Number(goalkeeper_score)]
    ELSE LET defense_score == calculate_player_defense_score(row, conceded)
             midfield_score == calculate_player_midfield_score(row)
             forward_score == calculate_player_forward_score(row)
         IN  [defense_score |-> Number(defense_score),
              midfield_score |-> Number(midfield_score),
              forward_score |-> Number(forward_score),
              goalkeeper_score |-> Null,
              final_score |-> Number(calculate_final_score(norm_pos, defense_score,
                                                            midfield_score, forward_score))]

\* The body of process_players for one player, from the position to the
\* scores.
ScoreRow ==
    /\ scored = NoScores
    /\ position = NoPosition
    /\ stat_row # << >>
    /\ LET pos == _get_position_from_ids(position_id, usual_pos_id)
       IN  /\ position' = pos
           /\ scored' = ScoresOfRow(stat_row, pos[2], team_goals_conceded)
    /\ UNCHANGED << position_id, usual_pos_id, stat_row, team_goals_conceded >>
    /\ UNCHANGED << loaderVars, transformVars, classifierVars, discoverVars,
                    captureVars, pipelineVars, functionVars >>

\* The rows of the model: every counter None, or every counter 1, but for
\* the counters the initial states draw.
BaseRows == { [k \in Counters |-> NoValue], [k \in Counters |-> 1] }
Values == { NoValue } \cup 0..MaxCount

\* The ids of the model's players: a goalkeeper, a centre-back, a central
\* midfielder with a forward's usual position, a striker, substitutes known
\* by their usual position only, and a player with no id at all.
PlayerPositionIds ==
    { << 11, NoneId >>, << 33, NoneId >>, << 73, 3 >>, << 115, NoneId >>,
      << NoneId, 3 >>, << NoneId, 0 >>, << NoneId, NoneId >> }

InitPositionIdle ==
    /\ position_id = NoneId
    /\ usual_pos_id = NoneId
    /\ position = NoPosition
    /\ stat_row = << >>
    /\ team_goals_conceded = 0
    /\ scored = NoScores

InitDiscoverIdle ==
    /\ start_round = 0
    /\ end_round = 0
    /\ rnd = 0
    /\ page_rows = << >>
    /\ row_i = 0
    /\ all_urls = {}
    /\ disc_pc = "idle"
    /\ result = << >>
    /\ rows_seen = {}
    /\ visited = {}

----------------------------------------------------------------------------
(* extract_stat on the flattened stat map of a player: label -> stat node. *)
(* A node is a JSON object, None of a counter is NoValue.                  *)

\* The "stat" objects of the model: "value" missing, 0 or 7, "total"
\* missing or 10.
StatValues == { 0, 7 }
StatTotals == { 10 }
StatObjects ==
    { [k \in keys |-> IF k = "value" THEN v ELSE t] :
        keys \in SUBSET { "value", "total" }, v \in StatValues, t \in StatTotals }

\* The nodes: the empty object, an object without "stat", and one for each
\* stat object.
StatNodes ==
    { << >>, [key |-> "k"] } \cup { [key |-> "k", stat |-> o] : o \in StatObjects }

Labels == { "Accurate passes", "Goals" }

\* The flattened maps: each label is missing or has a node.
FlatStats ==
    UNION { [labels -> StatNodes] : labels \in SUBSET Labels }

NoExtract ==
    [passes_completed |-> NoValue, passes_attempted |-> NoValue, goals |-> NoValue]

\* The extractions process_players makes for the passes and the goals.
ExtractStats ==
    /\ extract_pc = "call"
    /\ LET passes == extract_stat(flat_stats, "Accurate passes", TRUE)
       IN  extracted' = [passes_completed |-> passes[1],
                         passes_attempted |-> passes[2],
                         goals |-> extract_stat(flat_stats, "Goals", FALSE)]
    /\ extract_pc' = "returned"
    /\ UNCHANGED << loaderVars, transformVars, classifierVars, discoverVars,
                    captureVars, pipelineVars, positionVars, flat_stats >>

InitExtractIdle ==
    /\ flat_stats = << >>
    /\ extracted = NoExtract
    /\ extract_pc = "idle"

InitFunctionsIdle == InitExtractIdle

\* No stage of the extract side or of the pipeline is running.
InitStagesIdle ==
    /\ InitDiscoverIdle /\ InitCaptureIdle /\ InitPipeline /\ InitPositionIdle
    /\ InitFunctionsIdle

----------------------------------------------------------------------------
InitLoader ==
    /\ store = EmptyTables
    /\ tx = [c \in Conns |-> EmptyTables]
    /\ pc = [c \in Conns |-> "idle"]
    /\ doc = [c \in Conns |-> NoDoc]
    /\ new_teams = [c \in Conns |-> << >>]
    /\ new_players = [c \in Conns |-> << >>]
    /\ before = [c \in Conns |-> EmptyTables]
    /\ faulted = [c \in Conns |-> FALSE]
    /\ overlap = [c \in Conns |-> FALSE]
    /\ log = << >>
    /\ started = 0

Init ==
    /\ InitLoader
    /\ InitStagesIdle
    /\ raw_json = NoRaw
    /\ transformed = NoDoc
    /\ rankings_file = << >>
    /\ row_text = << >>
    /\ status = "NONE"

Next ==
    \E c \in Conns :
        \/ \E d \in Docs : StartLoad(c, d)
        \/ MatchExists(c)
        \/ LoadTeams(c)
        \/ InsertTeam(c)
        \/ LoadPlayers(c)
        \/ InsertPlayer(c)
        \/ LoadMatch(c)
        \/ LoadPlayerMatchStats(c)
        \/ Commit(c)
        \/ Fail(c)

\* Concurrent loads on separate connections, with injected exceptions.
Spec == Init /\ [][Next]_vars

InitTransformLoad ==
    /\ InitLoader
    /\ InitStagesIdle
    /\ raw_json \in RawDocs
    /\ transformed = NoDoc
    /\ rankings_file = << >>
    /\ row_text = << >>
    /\ status = "NONE"

NextTransformLoad ==
    \/ Transform
    \/ StartLoadTransformed
    \/ MatchExists(1)
    \/ LoadTeams(1)
    \/ InsertTeam(1)
    \/ LoadPlayers(1)
    \/ InsertPlayer(1)
    \/ LoadMatch(1)
    \/ LoadPlayerMatchStats(1)
    \/ Commit(1)

\* One raw document is transformed and loaded into an empty store.
SpecTransformLoad == InitTransformLoad /\ [][NextTransformLoad]_vars

InitTransform ==
    /\ InitLoader
    /\ InitStagesIdle
    /\ raw_json \in SourceDocs
    /\ transformed = NoDoc
    /\ rankings_file = << >>
    /\ row_text = << >>
    /\ status = "NONE"

NextTransform == Transform

\* One raw document is transformed.
SpecTransform == InitTransform /\ [][NextTransform]_vars

InitClassify ==
    /\ InitLoader
    /\ InitStagesIdle
    /\ raw_json = NoRaw
    /\ transformed = NoDoc
    /\ rankings_file = << >>
    /\ row_text \in Texts
    /\ status = "NONE"

NextClassify == Classify

\* The status of one fixture row is decided.
SpecClassify == InitClassify /\ [][NextClassify]_vars

InitDiscover ==
    /\ InitLoader
    /\ raw_json = NoRaw
    /\ transformed = NoDoc
    /\ rankings_file = << >>
    /\ row_text = << >>
    /\ status = "NONE"
    /\ start_round \in 1..MaxRound
    /\ end_round \in 1..MaxRound
    /\ rnd = 0
    /\ page_rows = << >>
    /\ row_i = 0
    /\ all_urls = {}
    /\ disc_pc = "idle"
    /\ result = << >>
    /\ rows_seen = {}
    /\ visited = {}
    /\ InitCaptureIdle
    /\ InitPipeline
    /\ InitFunctionsIdle
    /\ InitPositionIdle

NextDiscover ==
    \/ StartDiscover
    \/ GotoRound
    \/ GotoFails
    \/ ProcessRow
    \/ RowsDone

\* One scan of a range of rounds.
SpecDiscover == InitDiscover /\ [][NextDiscover]_vars

InitCapture ==
    /\ InitLoader
    /\ raw_json = NoRaw
    /\ transformed = NoDoc
    /\ rankings_file = << >>
    /\ row_text = << >>
    /\ status = "NONE"
    /\ InitDiscoverIdle
    /\ match_url \in CaptureUrls
    /\ scrape_match_id = << >>
    /\ match_details_json = [data |-> NoPayload]
    /\ player_stats_json = << >>
    /\ in_flight = {}
    /\ arrived = 0
    /\ cap_pc = "idle"
    /\ at_close = NoPayload
    /\ cap_result = NoCapture
    /\ latest_parsed = [n |-> 0, body |-> NoPayload]
    /\ InitPipeline
    /\ InitFunctionsIdle
    /\ InitPositionIdle

NextCapture ==
    \/ StartCapture
    \/ ResponseArrives
    \/ ResponseParsed
    \/ PageStep
    \/ PageFails
    \/ ClosePage
    \/ Validate

\* One capture of one match.
SpecCapture == InitCapture /\ [][NextCapture]_vars

NextPipeline ==
    \/ StartRun
    \/ LoopHead
    \/ Scrape
    \/ SaveOpen
    \/ SaveWrite
    \/ ReadRaw
    \/ TransformAndWrite
    \/ Abort

\* Runs of the backfill, one after the other, over one file system.
SpecPipeline == Init /\ [][NextPipeline]_vars

InitPosition ==
    /\ InitLoader
    /\ raw_json = NoRaw
    /\ transformed = NoDoc
    /\ rankings_file = << >>
    /\ row_text = << >>
    /\ status = "NONE"
    /\ InitDiscoverIdle
    /\ InitCaptureIdle
    /\ InitPipeline
    /\ InitFunctionsIdle
    /\ position_id \in {NoneId} \cup 0..MaxPositionId
    /\ usual_pos_id \in {NoneId} \cup 0..MaxUsualPositionId
    /\ position = NoPosition
    /\ stat_row = << >>
    /\ team_goals_conceded = 0
    /\ scored = NoScores

NextPosition == MapPosition

\* The position of one player is decided from its two ids.
SpecPosition == InitPosition /\ [][NextPosition]_vars

InitScore ==
    /\ InitLoader
    /\ raw_json = NoRaw
    /\ transformed = NoDoc
    /\ rankings_file = << >>
    /\ row_text = << >>
    /\ status = "NONE"
    /\ InitDiscoverIdle
    /\ InitCaptureIdle
    /\ InitPipeline
    /\ InitFunctionsIdle
    /\ \E ids \in PlayerPositionIds :
           /\ position_id = ids[1]
           /\ usual_pos_id = ids[2]
    /\ position = NoPosition
    /\ \E base \in BaseRows :
       \E goals \in Values, completed \in Values, attempted \in Values :
       \E saves \in { NoValue, MaxCount }, tackles \in { NoValue, 1 },
          own_goals \in { NoValue, 1 } :
           stat_row = [base EXCEPT !["goals"] = goals,
                                   !["dribbles_completed"] = completed,
                                   !["dribbles_attempted"] = attempted,
                                   !["passes_completed"] = completed,
                                   !["passes_attempted"] = attempted,
                                   !["saves"] = saves,
                                   !["tackles"] = tackles,
                                   !["own_goals"] = own_goals]
    /\ team_goals_conceded \in { 0, MaxCount }
    /\ scored = NoScores

NextScore == ScoreRow

\* The row of one player is scored.
SpecScore == InitScore /\ [][NextScore]_vars

InitExtract ==
    /\ InitLoader
    /\ raw_json = NoRaw
    /\ transformed = NoDoc
    /\ rankings_file = << >>
    /\ row_text = << >>
    /\ status = "NONE"
    /\ InitDiscoverIdle
    /\ InitCaptureIdle
    /\ InitPipeline
    /\ InitPositionIdle
    /\ flat_stats \in FlatStats
    /\ extracted = NoExtract
    /\ extract_pc = "call"

NextExtract == ExtractStats

\* The passes and the goals of one player are read from its stat map.
SpecExtract == InitExtract /\ [][NextExtract]_vars
----------------------------------------------------------------------------
(* Properties of the loader.                                               *)

Calls == 1..Len(log)
MatchOf(e) == e.doc.match.match_id
MatchIn(m, s) == m \in Keys("match", s["match"])

\* Row counts of the four tables.
RowCounts(s) == [t \in Tables |-> BagCardinality(s[t])]

\* No two rows of the table share a key.
UniqueKeyed(tbl, bag) ==
    \A r1 \in BagToSet(bag) :
        /\ CopiesIn(r1, bag) = 1
        /\ \A r2 \in BagToSet(bag) : Key(tbl, r1) = Key(tbl, r2) => r1 = r2

\* The rows of a bag that belong to match m.
RowsOfMatch(bag, m) ==
    [r \in { x \in BagToSet(bag) : x.match_id = m } |-> CopiesIn(r, bag)]

\* The first entry of a sequence whose field id is v.
FirstWith(seq, id(_), v) ==
    seq[CHOOSE i \in 1..Len(seq) :
            /\ id(seq[i]) = v
            /\ \A j \in 1..(i - 1) : id(seq[j]) # v]

\* The player rows a document contributes to a store s: one row per player
\* id that s lacks, taken from the first roster entry with that id.
ExpectedPlayerRows(d, s) ==
    LET all == d.players.home_team_players \o d.players.away_team_players
        Id(p) == p.player_id
        missing == { Id(all[i]) : i \in 1..Len(all) } \ Keys("player", s["player"])
    IN  SetToBag({ [id |-> p, first_name |-> FirstWith(all, Id, p).first_name] :
                     p \in missing })

\* The team rows a document contributes to a store s.
ExpectedTeamRows(d, s) ==
    SetToBag({ [id |-> t.team_id, name |-> t.team_name] :
                 t \in { x \in {d.teams.homeTeam, d.teams.awayTeam} :
                           x.team_id \notin Keys("team", s["team"]) } })

\* The stat rows of a document: one per player id, the first entry kept.
ExpectedStatRows(d) ==
    LET Id(r) == r.player_id
        ids == { Id(d.player_stats[i]) : i \in 1..Len(d.player_stats) }
    IN  SetToBag({ FirstWith(d.player_stats, Id, p) : p \in ids })

\* C1: a load that fails with an exception at any step re-raises it, commits
\* nothing and discards every row it had staged; the committed store changes
\* only in the commit that follows the stat-row batch of a load that returns
\* True.
C1_FailedLoadLeavesNoTrace ==
    [][ /\ \A c \in Conns :
             (pc[c] # "idle" /\ pc'[c] = "idle") =>
                 LET e == log'[Len(log')]
                 IN  /\ faulted'[c] => e.ret = "raise"
                     /\ e.ret = "raise" =>
                            /\ store' = store
                            /\ tx'[c] = EmptyTables
                            /\ (~e.overlap => e.after = e.before)
                     /\ store' # store => (pc[c] = "commit" /\ e.ret = "True")
        /\ (\A c \in Conns : ~(pc[c] # "idle" /\ pc'[c] = "idle")) => store' = store
      ]_vars

\* The stat-row batch of a load failed after its match row had been staged,
\* and the store is as it was before the call.
C1_Witness ==
    \E i \in Calls :
        /\ log[i].faulted
        /\ log[i].at = "load_player_match_stats"
        /\ log[i].ret = "raise"
        /\ log[i].after = log[i].before

C3_LoserReturnsFalse ==
    (Len(log) = 2
     /\ log[1].doc = log[2].doc
     /\ \A i \in Calls : /\ log[i].overlap
                         /\ ~log[i].faulted
                         /\ log[i].before = EmptyTables)
    => \A i \in Calls : log[i].ret # "raise"

\* C4: over all calls for one match at most one returns True, and the store
\* never holds two match rows with one match_id nor two stat rows with one
\* (match_id, player_id).
C4_AtMostOnce ==
    /\ \A m \in MatchIds :
           Cardinality({ i \in Calls : log[i].ret = "True" /\ MatchOf(log[i]) = m }) <= 1
    /\ UniqueKeyed("match", store["match"])
    /\ UniqueKeyed("player_match_stats", store["player_match_stats"])

\* Two overlapping calls for one match ended, one of them with True.
C4_Witness ==
    /\ Len(log) = 2
    /\ MatchOf(log[1]) = MatchOf(log[2])
    /\ log[1].overlap /\ log[2].overlap
    /\ log[1].ret = "True"
    /\ log[2].ret # "True"
    /\ BagCardinality(store["match"]) = 1

\* C5: two writers load different matches concurrently (the matches may
\* share a team or a player that the store lacks), no exception injected:
\* both calls return True.
C5_DifferentMatchesBothLoad ==
    (Len(log) = 2
     /\ MatchOf(log[1]) # MatchOf(log[2])
     /\ \A i \in Calls : /\ log[i].overlap
                         /\ ~log[i].faulted
                         /\ log[i].before = EmptyTables)
    => \A i \in Calls : log[i].ret = "True"

\* C6: in every committed store, every stat row belongs to a match row, and
\* the stat rows of every match row are those of the document whose load
\* inserted it.
C6_MatchWithItsStats ==
    /\ \A r \in BagToSet(store["player_match_stats"]) : MatchIn(r.match_id, store)
    /\ \A r \in BagToSet(store["match"]) :
           \E i \in Calls :
               /\ log[i].ret = "True"
               /\ MatchOf(log[i]) = r.match_id
               /\ RowsOfMatch(store["player_match_stats"], r.match_id)
                      = ExpectedStatRows(log[i].doc)

\* A match is committed with its stat rows after a load failed in its
\* stat-row batch.
C6_Witness ==
    /\ store["match"] # EmptyBag
    /\ store["player_match_stats"] # EmptyBag
    /\ \E i \in Calls : log[i].faulted /\ log[i].at = "load_player_match_stats"

\* C7: a load of a match whose primary key is in the store when the call
\* starts ends in the existence check with False: nothing is inserted and
\* the four tables are as before.
C7_ExistingMatchSkipped ==
    \A i \in Calls :
        MatchIn(MatchOf(log[i]), log[i].before)
        => /\ log[i].ret = "False"
           /\ log[i].at = "match_exists"
           /\ ~log[i].faulted
           /\ (~log[i].overlap => log[i].after = log[i].before)

\* A load was skipped although a player of its document is not in the store.
C7_Witness ==
    \E i \in Calls :
        /\ MatchIn(MatchOf(log[i]), log[i].before)
        /\ log[i].ret = "False"
        /\ ExpectedPlayerRows(log[i].doc, log[i].before) # EmptyBag

----------------------------------------------------------------------------
(* Properties of transform followed by load.                               *)

\* The rows a call added to the four tables together.
InsertedRows(e) ==
    LET Added(t) == BagCardinality(e.after[t]) - BagCardinality(e.before[t])
    IN  Added("team") + Added("player") + Added("match") + Added("player_match_stats")

\* The raw document has 11 starters per team, no substitute with a recorded
\* performance, and a playerStats entry for each of the 22 starters.
ElevenAside(raw) ==
    LET lineup == raw.matchDetails.content.lineup
        nodes == lineup.homeTeam.starters \o lineup.awayTeam.starters
        subs == lineup.homeTeam.subs \o lineup.awayTeam.subs
    IN  /\ Len(lineup.homeTeam.starters) = 11
        /\ Len(lineup.awayTeam.starters) = 11
        /\ \A i \in 1..Len(subs) : ~Played(subs[i])
        /\ \A i \in 1..Len(nodes) : Str(nodes[i].id) \in DOMAIN raw.playerStats

\* C9: for such a raw document transform yields two teams, 22 players and
\* 22 stat rows (and one match), and the first load into an empty store
\* returns True having inserted 2 + 22 + 1 + 22 = 47 rows.
C9_ElevenAsideLoads47 ==
    (raw_json # NoRaw /\ ElevenAside(raw_json)) =>
        /\ transformed # NoDoc =>
               /\ transformed.teams.homeTeam.team_id # transformed.teams.awayTeam.team_id
               /\ Len(transformed.players.home_team_players)
                      + Len(transformed.players.away_team_players) = 22
               /\ Len(transformed.player_stats) = 22
        /\ \A i \in Calls : log[i].ret = "True" /\ InsertedRows(log[i]) = 47
----------------------------------------------------------------------------
(* Properties of the status decision.                                      *)

\* "FT Liverpool 2-1 Everton"
ExampleFullTime ==
    << "F", "T", " ", "L", "i", "v", "e", "r", "p", "o", "o", "l", " ",
       "2", "-", "1", " ", "E", "v", "e", "r", "t", "o", "n" >>

\* "Brighton & Hove Albion 1-0 Fulham"
ExampleScore ==
    << "B", "r", "i", "g", "h", "t", "o", "n", " ", "&", " ", "H", "o",
       "v", "e", " ", "A", "l", "b", "i", "o", "n", " ", "1", "-", "0",
       " ", "F", "u", "l", "h", "a", "m" >>

\* "45+2' LIVE"
ExampleLive ==
    << "4", "5", "+", "2", "'", " ", "L", "I", "V", "E" >>

\* "14:00"
ExampleClock ==
    << "1", "4", ":", "0", "0" >>

\* "Brighton & Hove Albion vs Fulham"
ExampleNoSignal ==
    << "B", "r", "i", "g", "h", "t", "o", "n", " ", "&", " ", "H", "o",
       "v", "e", " ", "A", "l", "b", "i", "o", "n", " ", "v", "s", " ",
       "F", "u", "l", "h", "a", "m" >>

\* The signals of the rule list, read off the text itself.
\* FT in any case, anywhere:
HoldsFT(text) ==
    \E i \in 1..(Len(text) - 1) : text[i] \in {"F", "f"} /\ text[i + 1] \in {"T", "t"}

\* a maximal run of word characters that spells LIVE or HT (in any case, as
\* the decision reads the upper-cased text):
HoldsLiveOrHT(text) ==
    \E i \in 1..Len(text) : \E j \in i..Len(text) :
        /\ \A k \in i..j : IsWordChar(text[k])
        /\ (i > 1 => ~IsWordChar(text[i - 1]))
        /\ (j < Len(text) => ~IsWordChar(text[j + 1]))
        /\ ToUpper(SubSeq(text, i, j)) \in { << "L", "I", "V", "E" >>, << "H", "T" >> }

\* a digit, a colon and two digits in a row:
HoldsClock(text) ==
    \E i \in 1..(Len(text) - 3) :
        /\ IsDigit(text[i]) /\ text[i + 1] = ":"
        /\ IsDigit(text[i + 2]) /\ IsDigit(text[i + 3])

\* a hyphen whose nearest characters that are not white space are digits,
\* one on each side:
HoldsScore(text) ==
    \E h \in 1..Len(text) :
        LET left == { k \in 1..(h - 1) : ~IsSpace(text[k]) }
            right == { k \in (h + 1)..Len(text) : ~IsSpace(text[k]) }
            Max(S) == CHOOSE x \in S : \A y \in S : y <= x
            Min(S) == CHOOSE x \in S : \A y \in S : x <= y
        IN  /\ text[h] = "-"
            /\ left # {} /\ IsDigit(text[Max(left)])
            /\ right # {} /\ IsDigit(text[Min(right)])

\* The ordered rule list: the status of the first rule that holds.
RuleStatus == << "COMPLETED", "LIVE_OR_HALFTIME", "SCHEDULED", "COMPLETED" >>
RuleHolds(k, text) ==
    CASE k = 1 -> HoldsFT(text)
      [] k = 2 -> HoldsLiveOrHT(text)
      [] k = 3 -> HoldsClock(text)
      [] k = 4 -> HoldsScore(text)
FirstMatchWins(text) ==
    LET hits == { k \in 1..4 : RuleHolds(k, text) }
    IN  IF hits = {} THEN "UNKNOWN"
        ELSE RuleStatus[CHOOSE k \in hits : \A k2 \in hits : k <= k2]

\* C10: the status decided for a row text is the status of the first rule
\* that holds in the list (1) FT as a substring in any case: COMPLETED,
\* (2) standalone word LIVE or HT: LIVE_OR_HALFTIME, (3) clock time:
\* SCHEDULED, (4) score: COMPLETED, (5) otherwise UNKNOWN; and the five
\* example texts get COMPLETED, COMPLETED, LIVE_OR_HALFTIME, SCHEDULED and
\* UNKNOWN.
C10_StatusIsFirstMatchingRule ==
    /\ status # "NONE" => status = FirstMatchWins(row_text)
    /\ DecideStatus(ExampleFullTime) = "COMPLETED"
    /\ DecideStatus(ExampleScore) = "COMPLETED"
    /\ DecideStatus(ExampleLive) = "LIVE_OR_HALFTIME"
    /\ DecideStatus(ExampleClock) = "SCHEDULED"
    /\ DecideStatus(ExampleNoSignal) = "UNKNOWN"

\* A text with FT and with a standalone LIVE or HT was decided COMPLETED.
C10_Witness ==
    /\ status = "COMPLETED"
    /\ HoldsFT(row_text)
    /\ HoldsLiveOrHT(row_text)
----------------------------------------------------------------------------
(* Properties of the discovery scan.                                       *)

\* The URLs of the rows seen that carry an href and are COMPLETED by the
\* rule list.
CompletedUrls ==
    { BuildUrl(r.href) :
        r \in { r2 \in rows_seen :
                  r2.href # NoHref /\ FirstMatchWins(r2.text) = "COMPLETED" } }

\* C11: a scan that returns has loaded the pages of exactly the rounds
\* start_round..end_round, and returns the strictly ascending (hence
\* duplicate-free) sequence of the URLs of the rows on them that carry an
\* href and are COMPLETED; rows of the other statuses add no URL, and a scan
\* that ended with an error ended at the navigation to a page it did not
\* load, never at a row.
C11_DiscoverReturnsSortedCompleted ==
    /\ disc_pc = "returned" =>
           /\ visited = { r \in 1..MaxRound : start_round <= r /\ r <= end_round }
           /\ { result[k] : k \in 1..Len(result) } = CompletedUrls
           /\ \A k \in 1..(Len(result) - 1) : StrLess(result[k], result[k + 1])
    /\ disc_pc = "rows" =>
           all_urls \subseteq CompletedUrls
    /\ disc_pc = "raised" => rnd \notin visited

\* A scan over two rounds or more returned two URLs or more, having seen a
\* row without href, a row that is not COMPLETED and two rows of one match.
C11_Witness ==
    /\ disc_pc = "returned"
    /\ start_round < end_round
    /\ Len(result) >= 2
    /\ \E r \in rows_seen : r.href = NoHref
    /\ \E r \in rows_seen : r.href # NoHref /\ FirstMatchWins(r.text) # "COMPLETED"
    /\ \E r \in rows_seen : \E r2 \in rows_seen :
           r.href # r2.href /\ r.href # NoHref /\ r2.href # NoHref
               /\ BuildUrl(r.href) = BuildUrl(r2.href)
\* C12: a scan in which the navigation to a round's page fails still
\* returns, and what it returns holds the URLs of the completed rows of the
\* pages it loaded.
C12_NavigationFailureSkipsRound ==
    disc_pc \in { "returned", "raised" } =>
        /\ disc_pc = "returned"
        /\ CompletedUrls \subseteq { result[k] : k \in 1..Len(result) }
----------------------------------------------------------------------------
(* Properties of the capture.                                              *)

\* The payload carries an error entry that counts as set.
ErrorFlagged(md) == md.kind = "dict" /\ md.error \notin { "absent", "false", "empty" }

\* C13: once the page is closed, capture ends with its error exactly when no
\* matchDetails payload was stored at the close or the stored payload is
\* flagged as an error; otherwise it returns the document of the match id,
\* the stored payload (not null, not flagged) and the player stats as they
\* were collected, whatever their number.
C13_CaptureErrorIffNoUsableDetails ==
    cap_pc \in { "returned", "capture_error" } =>
        /\ cap_pc = "capture_error" <=> (at_close = NoPayload \/ ErrorFlagged(at_close))
        /\ cap_pc = "returned" =>
               /\ cap_result.matchId = scrape_match_id
               /\ cap_result.matchDetails = at_close
               /\ cap_result.matchDetails # NoPayload
               /\ ~ErrorFlagged(cap_result.matchDetails)
               /\ cap_result.playerStats = player_stats_json

\* A capture returned with no player stats at all, after a payload with a
\* false error entry was stored over an earlier one.
C13_Witness ==
    /\ cap_pc = "returned"
    /\ cap_result.playerStats = << >>
    /\ cap_result.matchDetails.error = "false"
    /\ arrived >= 2
----------------------------------------------------------------------------
(* Properties of the backfill.                                             *)

\* save_match is writing the file of match m.
BeingWritten(m) ==
    /\ pipe_pc \in { "json_dump" }
    /\ match_urls[url_i] = m

\* C14: whenever no write of it is under way, the raw file of a match is
\* absent or holds a complete document, so that neither transform nor a later
\* run that finds the file and skips the capture reads a partial one.
C14_RawArtifactAbsentOrComplete ==
    \A m \in BackfillMatches :
        ~BeingWritten(m) => (~raw_files[m].exists \/ Complete(raw_files[m]))

\* C15: a run of the backfill that got its matches from discovery never ends
\* on a failure of a stage for one match: it ends when its loop came to
\* every match of the sequence.
C15_PerMatchFailureNeverAborts ==
    /\ (pipe_pc = "raised" => match_urls = << >>)
    /\ (pipe_pc \in { "complete", "raised" } =>
            reached = { match_urls[k] : k \in 1..Len(match_urls) })
----------------------------------------------------------------------------
(* Properties of the position mapping.                                     *)

\* The roles of the usual-position codes 0..3.
CoarseRoles == << "GK", "DF", "MF", "FW" >>

\* C16: the position decided is the entry of the fine-grained table when
\* position_id is one of its keys, whatever usual_pos_id is; otherwise the
\* role of usual_pos_id, twice, when it is in 0..3; otherwise (UNK, UNK).
\* (33, None) gives (CB, DF), (None, 3) gives (FW, FW) and (None, None)
\* gives (UNK, UNK).
C16_PositionLookupOrder ==
    /\ position # NoPosition =>
           position =
               IF position_id \in DOMAIN POSITION_ID_MAP THEN POSITION_ID_MAP[position_id]
               ELSE IF usual_pos_id \in 0..3
                    THEN << CoarseRoles[usual_pos_id + 1], CoarseRoles[usual_pos_id + 1] >>
               ELSE << "UNK", "UNK" >>
    /\ _get_position_from_ids(33, NoneId) = << "CB", "DF" >>
    /\ _get_position_from_ids(NoneId, 3) = << "FW", "FW" >>
    /\ _get_position_from_ids(NoneId, NoneId) = << "UNK", "UNK" >>

\* A centre-back whose usual position is forward was decided (CB, DF).
C16_Witness ==
    /\ position = << "CB", "DF" >>
    /\ position_id = 33
    /\ usual_pos_id = 3
----------------------------------------------------------------------------
(* Properties of the scores and of transform.                              *)

\* C17: in a scored row of a goalkeeper goalkeeper_score is a number and
\* defense_score, midfield_score and forward_score are None; in a scored row
\* of any other position (DF, MF, FW, UNK) goalkeeper_score is None and the
\* three are numbers; final_score is always a number, and the
\* goalkeeper_score itself for a goalkeeper.
C17_ScoresByPosition ==
    scored # NoScores =>
        /\ ~scored.final_score.null
        /\ position[2] \in { "GK", "DF", "MF", "FW", "UNK" }
        /\ IF position[2] = "GK"
           THEN /\ ~scored.goalkeeper_score.null
                /\ scored.defense_score.null
                /\ scored.midfield_score.null
                /\ scored.forward_score.null
                /\ scored.final_score = scored.goalkeeper_score
           ELSE /\ scored.goalkeeper_score.null
                /\ ~scored.defense_score.null
                /\ ~scored.midfield_score.null
                /\ ~scored.forward_score.null

\* A goalkeeper with saves was scored above zero.
C17_Witness ==
    /\ scored # NoScores
    /\ position[2] = "GK"
    /\ stat_row.saves = MaxCount
    /\ scored.final_score.units > 0

\* The weights of the final rating, in hundredths: defense, midfield,
\* forward.
FinalWeights ==
    [ DF |-> << 65, 25, 10 >>, MF |-> << 20, 50, 30 >>, FW |-> << 10, 20, 70 >> ]

\* C18: the final score of a DF, MF or FW row is the weighted sum of its
\* three sub-scores with the weights (0.65, 0.25, 0.10), (0.20, 0.50, 0.30)
\* and (0.10, 0.20, 0.70), each triple summing to 1; the final score of an
\* UNK row is 0.
C18_FinalIsWeightedSum ==
    /\ \A p \in DOMAIN FinalWeights :
           FinalWeights[p][1] + FinalWeights[p][2] + FinalWeights[p][3] = 100
    /\ (scored # NoScores /\ position[2] \in DOMAIN FinalWeights) =>
           scored.final_score.units * 100 =
               FinalWeights[position[2]][1] * scored.defense_score.units
               + FinalWeights[position[2]][2] * scored.midfield_score.units
               + FinalWeights[position[2]][3] * scored.forward_score.units
    /\ (scored # NoScores /\ position[2] = "UNK") => scored.final_score.units = 0

\* A defender with three different sub-scores was scored.
C18_Witness ==
    /\ scored # NoScores
    /\ position[2] = "DF"
    /\ scored.defense_score.units # scored.midfield_score.units
    /\ scored.midfield_score.units # scored.forward_score.units
    /\ scored.forward_score.units > 0

\* The row with one goal more, None counting as no goal.
OneMoreGoal(row) == [row EXCEPT !["goals"] = IF @ = NoValue THEN 1 ELSE @ + 1]

\* C19: for a scored FW row, the same row with one goal more and the same
\* goals conceded has a greater forward score and a greater final score.
C19_GoalRaisesForwardAndFinal ==
    (scored # NoScores /\ position[2] = "FW") =>
        LET more == ScoresOfRow(OneMoreGoal(stat_row), "FW", team_goals_conceded)
        IN  /\ more.forward_score.units > scored.forward_score.units
            /\ more.final_score.units > scored.final_score.units

\* A FW row whose goals counter is None was scored.
C19_Witness ==
    /\ scored # NoScores
    /\ position[2] = "FW"
    /\ stat_row.goals = NoValue

\* C20: a call of transform writes no file, and what it returns is a
\* function of the raw document alone.
C20_TransformIsPure ==
    transformed # NoDoc =>
        /\ rankings_file = << >>
        /\ transformed = transform_full_match(raw_json)

----------------------------------------------------------------------------
(* Properties of extract_stat.                                             *)

\* The node of a label holds a stat object with both "value" and "total".
HasFraction(label) ==
    /\ label \in DOMAIN flat_stats
    /\ "stat" \in DOMAIN flat_stats[label]
    /\ { "value", "total" } \subseteq DOMAIN flat_stats[label].stat

\* C21: once the counters are read, a fraction counter whose label has a
\* node {"stat": {"value": v, "total": t}} is the pair (v, t), so value 7
\* and total 10 under "Accurate passes" give passes_completed 7 and
\* passes_attempted 10; a fraction counter whose label is missing is
\* (None, None); a scalar counter is the "value" of its node, or None.
C21_FractionAndScalarExtraction ==
    extract_pc = "returned" =>
        /\ HasFraction("Accurate passes") =>
               /\ extracted.passes_completed = flat_stats["Accurate passes"].stat.value
               /\ extracted.passes_attempted = flat_stats["Accurate passes"].stat.total
        /\ "Accurate passes" \notin DOMAIN flat_stats =>
               /\ extracted.passes_completed = NoValue
               /\ extracted.passes_attempted = NoValue
        /\ \/ extracted.goals = NoValue
           \/ /\ "Goals" \in DOMAIN flat_stats
              /\ "stat" \in DOMAIN flat_stats["Goals"]
              /\ "value" \in DOMAIN flat_stats["Goals"].stat
              /\ extracted.goals = flat_stats["Goals"].stat.value
        /\ ( /\ "Goals" \in DOMAIN flat_stats
             /\ "stat" \in DOMAIN flat_stats["Goals"]
             /\ "value" \in DOMAIN flat_stats["Goals"].stat )
           => extracted.goals = flat_stats["Goals"].stat.value

\* 7 of 10 passes were read, and the goals.
C21_Witness ==
    /\ extract_pc = "returned"
    /\ HasFraction("Accurate passes")
    /\ flat_stats["Accurate passes"].stat.value = 7
    /\ flat_stats["Accurate passes"].stat.total = 10
    /\ extracted.passes_completed = 7
    /\ extracted.passes_attempted = 10
    /\ "Goals" \notin DOMAIN flat_stats
    /\ extracted.goals = NoValue

----------------------------------------------------------------------------
(* The match insert that affects no row.                                   *)

\* c's INSERT INTO match ... ON CONFLICT DO NOTHING finds the match_id held
\* by a committed row and returns no row.
MatchInsertAffectsNoRow(c) ==
    /\ pc[c] = "load_match"
    /\ pc'[c] = "idle"
    /\ ~faulted'[c]
    /\ IndexAnswer(c, "match", doc[c].match.match_id) = "conflict"

\* The players of a finished call's document that the store it left lacks.
PlayersLeftOut(e) ==
    LET all == e.doc.players.home_team_players \o e.doc.players.away_team_players
    IN  { all[i].player_id : i \in 1..Len(all) } \ Keys("player", e.after["player"])

----------------------------------------------------------------------------
(* Properties of the response handlers of the capture.                     *)

\* C23: when the page is closed, the stored matchDetails is the payload of
\* the latest-arriving response of the match-details signature whose body
\* was parsed, in whatever order the bodies were parsed; a body that fails to
\* parse changes nothing.
C23_LatestArrivedDetailsStored ==
    /\ cap_pc \in { "closed", "returned", "capture_error" } =>
           match_details_json.data = latest_parsed.body
    /\ cap_pc = "returned" => cap_result.matchDetails = latest_parsed.body

\* The value of the query parameter of a URL whose name and "=" are given:
\* the text between "name=" at the start of a parameter and the next "&";
\* the empty string when the URL has no such parameter.
QueryParam(url, name_eq) ==
    LET q == Split(url, "?")
    IN  IF Len(q) < 2 THEN << >>
        ELSE LET params == Split(q[2], "&")
                 hits == { i \in 1..Len(params) : StartsWith(params[i], name_eq) }
             IN  IF hits = {} THEN << >>
                 ELSE LET i == CHOOSE i \in hits : \A j \in hits : i <= j
                      IN  SubSeq(params[i], Len(name_eq) + 1, Len(params[i]))

\* The response a handler answers is one for the match of this capture.
ForThisMatch(h) == QueryParam(h.url, S_matchId) = scrape_match_id

\* C24: while a capture runs, matchDetails is stored only from a response
\* whose matchId parameter is the match id of the capture, and an entry of
\* playerStats is added or overwritten only by such a response, under the
\* digits of its playerId parameter.
C24_OnlyOwnMatchStored ==
    [][ cap_pc # "idle" =>
          /\ match_details_json' # match_details_json =>
                 \E h \in in_flight \ in_flight' :
                     /\ ForThisMatch(h)
                     /\ match_details_json'.data = h.body
          /\ \A k \in DOMAIN player_stats_json' :
                 (k \in DOMAIN player_stats_json => player_stats_json'[k] # player_stats_json[k])
                 => \E h \in in_flight \ in_flight' :
                        /\ ForThisMatch(h)
                        /\ k = QueryParam(h.url, S_playerId)
                        /\ \A i \in 1..Len(k) : IsDigit(k[i])
                        /\ player_stats_json'[k] = h.body
      ]_vars

----------------------------------------------------------------------------
(* The raw artifact and the order of capture and transform.                *)

\* The match the loop of the backfill is at.
CurrentMatch == match_urls[url_i]

\* C25: transform is invoked on a match only when its raw document is in
\* the raw file of its match id; a match is captured only when it has no raw
\* file, so on a run that finds the file the capture is skipped, the file is
\* read instead, and a complete raw file is never written again.
C25_RawPersistedBeforeTransform ==
    /\ [](pipe_pc = "transform" => Complete(raw_files[CurrentMatch]))
    /\ [][ /\ pipe_pc = "scrape" => ~raw_files[CurrentMatch].exists
           /\ ( /\ pipe_pc = "loop"
                /\ url_i <= Len(match_urls)
                /\ raw_files[CurrentMatch].exists
                /\ pipe_pc' # "aborted" ) => pipe_pc' = "read"
           /\ \A m \in BackfillMatches :
                  Complete(raw_files[m]) => raw_files'[m] = raw_files[m]
         ]_vars

\* A second run came to a match whose transform had failed in the first:
\* no capture was made in this run and transform is handed the stored file.
C25_Witness ==
    /\ runs = 2
    /\ pipe_pc = "transform"
    /\ raw_data = "none"
    /\ Complete(raw_files[CurrentMatch])
    /\ raw_files[CurrentMatch].kind = "malformed"
    /\ CurrentMatch \notin transformed_files

----------------------------------------------------------------------------
(* Properties of the output of transform.                                  *)

\* The indices of the substitutes of a lineup whose "performance" marker is
\* there and is not null.
Entered(team) ==
    { j \in 1..Len(team.subs) :
        "performance" \in DOMAIN team.subs[j] /\ team.subs[j].performance # None }

\* A roster is the starters of the team, then its substitutes that entered,
\* in the order of the lineup, each with the id of the team.
IsRosterOf(players, team) ==
    LET n == Len(team.starters)
    IN  /\ Len(players) = n + Cardinality(Entered(team))
        /\ \A i \in 1..Len(players) : players[i].team_id = team.id
        /\ \A i \in 1..n : players[i].player_id = team.starters[i].id
        /\ \A j \in Entered(team) :
               players[n + Cardinality({ k \in Entered(team) : k <= j })].player_id
                   = team.subs[j].id
        /\ \A j \in (1..Len(team.subs)) \ Entered(team) :
               \A i \in 1..Len(players) : players[i].player_id # team.subs[j].id

\* C26: the roster transform returns for each team is the starters of the
\* team followed by its substitutes with a non-null "performance" marker,
\* each tagged with the id of the team; a substitute whose marker is null or
\* missing is in no roster.
C26_RosterIsStartersAndEnteredSubs ==
    transformed # NoDoc =>
        LET lineup == raw_json.matchDetails.content.lineup
        IN  /\ IsRosterOf(transformed.players.home_team_players, lineup.homeTeam)
            /\ IsRosterOf(transformed.players.away_team_players, lineup.awayTeam)

\* A document was transformed whose home substitute entered, and whose away
\* substitute has no marker: the first is the last of the home roster, the
\* away roster is the starters.
C26_Witness ==
    /\ transformed # NoDoc
    /\ LET lineup == raw_json.matchDetails.content.lineup
           home == transformed.players.home_team_players
       IN  /\ Len(lineup.homeTeam.subs) = 1
           /\ Entered(lineup.homeTeam) = {1}
           /\ home[Len(home)].player_id = lineup.homeTeam.subs[1].id
           /\ home[Len(home)].team_id = lineup.homeTeam.id
           /\ Len(lineup.awayTeam.subs) = 1
           /\ "performance" \notin DOMAIN lineup.awayTeam.subs[1]
           /\ Len(transformed.players.away_team_players)
                  = Len(lineup.awayTeam.starters)

\* The player ids of the two rosters of a transformed document.
RosterIds(d) ==
    LET all == d.players.home_team_players \o d.players.away_team_players
    IN  { all[i].player_id : i \in 1..Len(all) }

\* C27: every stat row of a transformed document has the id of a player of
\* its rosters and the id of one of its two teams (a substitute that never
\* entered has no stat row), and so no stat row is in the store without the
\* row of its player.
C27_StatRowsReferToRoster ==
    /\ transformed # NoDoc =>
           \A i \in 1..Len(transformed.player_stats) :
               /\ transformed.player_stats[i].player_id \in RosterIds(transformed)
               /\ transformed.player_stats[i].team_id \in
                      { transformed.teams.homeTeam.team_id,
                        transformed.teams.awayTeam.team_id }
    /\ \A row \in BagToSet(store["player_match_stats"]) :
           row.player_id \in Keys("player", store["player"])

\* The goals a playerStats mapping holds for a player, None without an entry.
GoalsIn(mapping, player_id) ==
    IF Str(player_id) \in DOMAIN mapping
    THEN mapping[Str(player_id)].stats[1].stats.Goals.stat.value
    ELSE NoValue

\* The captured mapping of a raw document holds an entry.
HasCaptured(raw) == "playerStats" \in DOMAIN raw /\ DOMAIN raw.playerStats # {}

\* matchDetails.content of a raw document carries playerStats.
HasEmbedded(raw) == "playerStats" \in DOMAIN raw.matchDetails.content

\* The lineup nodes of a raw document: starters and substitutes, home first.
LineupNodes(raw) ==
    LET lineup == raw.matchDetails.content.lineup
    IN  lineup.homeTeam.starters \o lineup.homeTeam.subs
            \o lineup.awayTeam.starters \o lineup.awayTeam.subs

\* C28: the counters of the stat rows come from the captured playerStats
\* mapping alone when it is not empty; from matchDetails.content.playerStats
\* when the captured mapping is empty or missing and that structure is
\* there; and with neither, there is still one row per lineup node, with
\* its counters None.
C28_StatSourceSelection ==
    transformed # NoDoc =>
        /\ Len(transformed.player_stats) = Len(LineupNodes(raw_json))
        /\ \A i \in 1..Len(transformed.player_stats) :
               LET row == transformed.player_stats[i]
               IN  /\ row.player_id = LineupNodes(raw_json)[i].id
                   /\ row.goals =
                          CASE HasCaptured(raw_json) ->
                                   GoalsIn(raw_json.playerStats, row.player_id)
                            [] HasEmbedded(raw_json) ->
                                   GoalsIn(raw_json.matchDetails.content.playerStats,
                                           row.player_id)
                            [] OTHER -> NoValue

\* A document without a captured entry and with embedded playerStats was
\* transformed: the row of the first home starter has the embedded goals.
C28_Witness ==
    /\ transformed # NoDoc
    /\ ~HasCaptured(raw_json)
    /\ HasEmbedded(raw_json)
    /\ transformed.player_stats[1].goals = EmbeddedGoals
    /\ transformed.player_stats[1].has_stats

----------------------------------------------------------------------------
(* From the href of a row to the match id of the capture.                  *)

\* The places of a character in a text.
Places(text, ch) == { k \in 1..Len(text) : text[k] = ch }

Least(S) == CHOOSE k \in S : \A j \in S : k <= j
Greatest(S) == CHOOSE k \in S : \A j \in S : j <= k

\* The href resolved against the base URL of the site.
Resolved(href) ==
    IF SubSeq(href, 1, 4) = << "h", "t", "t", "p" >> THEN href
    ELSE FOTMOB_BASE_URL \o href

\* The stable match id of an href: its fragment, or without a fragment the
\* last segment of its path.
StableMatchId(href) ==
    IF Places(href, "#") # {}
    THEN SubSeq(href, Least(Places(href, "#")) + 1, Len(href))
    ELSE SubSeq(href, Greatest(Places(href, "/")) + 1, Len(href))

\* The resolved href without its fragment.
PageOf(href) ==
    IF Places(Resolved(href), "#") = {} THEN Resolved(href)
    ELSE SubSeq(Resolved(href), 1, Least(Places(Resolved(href), "#")) - 1)

\* <base>#<matchId>:tab=lineup
CanonicalUrl(href) ==
    PageOf(href) \o << "#" >> \o StableMatchId(href)
        \o << ":", "t", "a", "b", "=", "l", "i", "n", "e", "u", "p" >>

\* The hrefs of the rows seen that are COMPLETED by the rule list.
CompletedHrefs ==
    { r.href : r \in { r2 \in rows_seen :
                         r2.href # NoHref /\ FirstMatchWins(r2.text) = "COMPLETED" } }

\* C29: every URL a scan returns is <base>#<matchId>:tab=lineup for the
\* href of a COMPLETED row, has exactly one '#', and the match id the capture
\* and the backfill loop parse from it (the fragment up to the first ':') is
\* the stable match id of the href; the hrefs of one match page give one URL,
\* so the scan returns one entry for each match page with a COMPLETED row.
C29_DiscoveryCaptureRoundTrip ==
    disc_pc = "returned" =>
        /\ \A href \in CompletedHrefs :
               \E k \in 1..Len(result) :
                   /\ result[k] = CanonicalUrl(href)
                   /\ Cardinality(Places(result[k], "#")) = 1
                   /\ MatchIdFromUrl(result[k]) = StableMatchId(href)
        /\ Len(result) = Cardinality({ PageOf(href) : href \in CompletedHrefs })

\* A scan returned after it had seen COMPLETED rows with the relative and
\* with the absolute href of one match and with an href without fragment.
C29_Witness ==
    /\ disc_pc = "returned"
    /\ { HrefMatch1, HrefMatch1Absolute, HrefMatch3 } \subseteq CompletedHrefs
    /\ \E k \in 1..Len(result) : MatchIdFromUrl(result[k]) = << "1" >>
    /\ \E k \in 1..Len(result) : MatchIdFromUrl(result[k]) = << "3" >>
    /\ Len(result) < Cardinality(CompletedHrefs)
====
